---- MODULE Spec2Model ----
(***************************************************************************)
(* Model of alpenhorn-chime: import detection (detection.py), the type     *)
(* tables (types.py, inst.py), the catalog seeding (util.py) and the       *)
(* post-import callback store_info, the node I/O class of reserving nodes  *)
(* (reserving.py), one content extraction of an info class step by step    *)
(* (info/base.py, info/corr.py, info/hfb.py) and two imports in progress   *)
(* at once.                                                                *)
(*                                                                         *)
(* Python strings that the code splits, matches or parses are sequences of *)
(* one-character strings.  A Python value that may be None is a sequence   *)
(* of length at most one: <<>> is None, <<x>> is x.                        *)
(***************************************************************************)
EXTENDS Integers, Sequences, FiniteSets, TLC

VARIABLES AcqTypeTbl, FileTypeTbl, AcqFileTypesTbl, ArchiveInstTbl,
          ArchiveAcqTbl, ArchiveFileTbl, InfoTbl, result, last,
          CopyTbl, ReqTbl, ReservedTags, downstream, ext, work

vars == <<AcqTypeTbl, FileTypeTbl, AcqFileTypesTbl, ArchiveInstTbl,
          ArchiveAcqTbl, ArchiveFileTbl, InfoTbl, result, last,
          CopyTbl, ReqTbl, ReservedTags, downstream, ext, work>>

catalog == <<AcqTypeTbl, FileTypeTbl, AcqFileTypesTbl, ArchiveInstTbl>>

archive == <<ArchiveAcqTbl, ArchiveFileTbl, InfoTbl>>

None == <<>>

Some(x) == <<x>>

\* the tables and the parent I/O class that reserving.py works on
reserving == <<CopyTbl, ReqTbl, ReservedTags, downstream>>

\* the content extraction in progress and the imports in progress
stepping == <<ext, work>>

NoExtraction == [pc |-> "none"]

NoWork == <<>>

\* what the method called last handed to its parent class
NoParentCall == [delete |-> None, pull |-> None]

\* no file copy, copy request or reservation on the node
NoNode ==
    /\ CopyTbl = <<>>
    /\ ReqTbl = <<>>
    /\ ReservedTags = <<>>
    /\ downstream = NoParentCall

\* no extraction and no import in progress
Idle == ext = NoExtraction /\ work = NoWork

\* ------------------------------------------------------------------------
\* Strings
\* ------------------------------------------------------------------------

Digit == {"0", "1", "2", "3", "4", "5", "6", "7", "8", "9"}

DigitVal == [c \in Digit |->
               CASE c = "0" -> 0 [] c = "1" -> 1 [] c = "2" -> 2
                 [] c = "3" -> 3 [] c = "4" -> 4 [] c = "5" -> 5
                 [] c = "6" -> 6 [] c = "7" -> 7 [] c = "8" -> 8
                 [] c = "9" -> 9]

\* str.split("_"): every underscore separates, empty parts are kept
RECURSIVE split(_)
split(s) ==
    IF \A i \in 1..Len(s) : s[i] # "_"
    THEN <<s>>
    ELSE LET i == CHOOSE k \in 1..Len(s) :
                      s[k] = "_" /\ \A j \in 1..(k - 1) : s[j] # "_"
         IN  <<SubSeq(s, 1, i - 1)>> \o split(SubSeq(s, i + 1, Len(s)))

\* A pathlib path is its sequence of components; str(path.parent) joins all
\* but the last with "/" and is "." for a single component.
RECURSIVE JoinSlash(_)
JoinSlash(parts) ==
    IF Len(parts) = 0 THEN <<>>
    ELSE IF Len(parts) = 1 THEN parts[1]
    ELSE parts[1] \o <<"/">> \o JoinSlash(Tail(parts))

PathParent(path) ==
    IF Len(path) = 1 THEN <<".">> ELSE JoinSlash(SubSeq(path, 1, Len(path) - 1))

PathName(path) == path[Len(path)]

\* ------------------------------------------------------------------------
\* datetime.datetime.strptime(s, "%Y%m%dT%H%M%SZ")
\* ------------------------------------------------------------------------

TimeFormat == <<"Y", "m", "d", "T", "H", "M", "S", "Z">>

IsDigitAt(s, i) == i <= Len(s) /\ s[i] \in Digit

InAt(s, i, set) == i <= Len(s) /\ s[i] \in set

\* The alternatives of one directive's regular expression that match at pos,
\* as their lengths in the order the regex engine tries them.
Alts(item, s, pos) ==
    LET two(a, b) == IF InAt(s, pos, a) /\ InAt(s, pos + 1, b) THEN <<2>> ELSE <<>>
        one(a)    == IF InAt(s, pos, a) THEN <<1>> ELSE <<>>
    IN CASE item = "Y" ->
              IF \A k \in 0..3 : IsDigitAt(s, pos + k) THEN <<4>> ELSE <<>>
         [] item = "m" ->
              two({"1"}, {"0", "1", "2"}) \o two({"0"}, Digit \ {"0"})
              \o one(Digit \ {"0"})
         [] item = "d" ->
              two({"3"}, {"0", "1"}) \o two({"1", "2"}, Digit)
              \o two({"0"}, Digit \ {"0"}) \o one(Digit \ {"0"})
              \o two({" "}, Digit \ {"0"})
         [] item = "H" ->
              two({"2"}, {"0", "1", "2", "3"}) \o two({"0", "1"}, Digit)
              \o one(Digit)
         [] item = "M" ->
              two({"0", "1", "2", "3", "4", "5"}, Digit) \o one(Digit)
         [] item = "S" ->
              two({"6"}, {"0", "1"}) \o two({"0", "1", "2", "3", "4", "5"}, Digit)
              \o one(Digit)
         [] item = "T" -> one({"T", "t"})
         [] item = "Z" -> one({"Z", "z"})

\* int() of the text a directive matched (a leading space is skipped)
RECURSIVE IntOf(_)
IntOf(t) ==
    IF Len(t) = 0 THEN 0
    ELSE IF t[1] = " " THEN IntOf(Tail(t))
    ELSE IF t[Len(t)] \in Digit
         THEN 10 * IntOf(SubSeq(t, 1, Len(t) - 1)) + DigitVal[t[Len(t)]]
         ELSE 0

\* Backtracking match of the format's regex from item i at position pos:
\* <<>> if nothing matches, else <<[end, vals]>> for the first match found.
\* TryAlts tries the alternatives of item i from the k-th on.  (Each
\* sub-match is bound once, as the element of a singleton set.)
RECURSIVE ReMatch(_, _, _), TryAlts(_, _, _, _, _)
TryAlts(s, pos, i, alts, k) ==
    IF k > Len(alts) THEN None
    ELSE CHOOSE out \in
           {IF r # None
            THEN Some([end |-> r[1].end,
                       vals |-> <<IntOf(SubSeq(s, pos, pos + alts[k] - 1))>>
                                \o r[1].vals])
            ELSE TryAlts(s, pos, i, alts, k + 1) :
              r \in {ReMatch(s, pos + alts[k], i + 1)}} : TRUE

ReMatch(s, pos, i) ==
    IF i > Len(TimeFormat) THEN Some([end |-> pos, vals |-> <<>>])
    ELSE CHOOSE out \in
           {TryAlts(s, pos, i, alts, 1) : alts \in {Alts(TimeFormat[i], s, pos)}} :
           TRUE

IsLeap(y) == (y % 4 = 0 /\ y % 100 # 0) \/ y % 400 = 0

DaysInMonth(y, m) ==
    IF m = 2 THEN (IF IsLeap(y) THEN 29 ELSE 28)
    ELSE IF m \in {4, 6, 9, 11} THEN 30 ELSE 31

\* None stands for ValueError
strptime(s) ==
    LET found == ReMatch(s, 1, 1)
    IN IF found = None THEN None
       ELSE IF found[1].end # Len(s) + 1 THEN None
       ELSE LET v == found[1].vals
                t == [year |-> v[1], month |-> v[2], day |-> v[3],
                      hour |-> v[5], minute |-> v[6], second |-> v[7]]
            IN IF t.year < 1 \/ t.day > DaysInMonth(t.year, t.month)
                  \/ t.second > 59
               THEN None
               ELSE Some(t)

\* ------------------------------------------------------------------------
\* re.match(pattern, string) for the patterns of the FileType table
\* ------------------------------------------------------------------------
\* A pattern is a sequence of atoms [k, c, g]: a literal character c
\* (k = "lit"), the class [0-9] (k = "digit"), the opening of the named group
\* g (k = "open") or the closing of a group (k = "close").

Lit(ch) == [k |-> "lit", c |-> ch, g |-> ""]

Dig == [k |-> "digit", c |-> "", g |-> ""]

Open(name) == [k |-> "open", c |-> "", g |-> name]

Close == [k |-> "close", c |-> "", g |-> ""]

Count(p, n, kind) == Cardinality({i \in 1..n : p[i].k = kind})

\* re.compile raises re.error ("missing ), unterminated subpattern",
\* "unbalanced parenthesis") unless the parentheses balance
WellFormed(p) ==
    /\ \A n \in 1..Len(p) : Count(p, n, "open") >= Count(p, n, "close")
    /\ Count(p, Len(p), "open") = Count(p, Len(p), "close")

Consumes(a) == a.k \in {"lit", "digit"}

\* position in the subject string of the character that atom i consumes
PosOf(p, i) == Cardinality({j \in 1..i : Consumes(p[j])})

AtomMatches(a, ch) ==
    IF a.k = "digit" THEN ch \in Digit ELSE ch = a.c

\* the named group atom i lies in, "" if none
GroupAt(p, i) ==
    LET opens == {j \in 1..i : p[j].k = "open"}
        j == CHOOSE x \in opens : \A y \in opens : y <= x
    IN IF opens = {} THEN ""
       ELSE IF \E l \in j..i : p[l].k = "close" THEN ""
       ELSE p[j].g

GroupNames(p) == {p[i].g : i \in {j \in 1..Len(p) : p[j].k = "open"}}

\* the text of s that group g captured
GroupText(p, s, g) ==
    LET idx == {i \in 1..Len(p) : Consumes(p[i]) /\ GroupAt(p, i) = g}
        lo  == CHOOSE i \in idx : \A j \in idx : i <= j
        hi  == CHOOSE i \in idx : \A j \in idx : i >= j
    IN IF idx = {} THEN <<>> ELSE SubSeq(s, PosOf(p, lo), PosOf(p, hi))

\* re.match anchors at the start of the string only; the result is None or
\* the match's groupdict(), whose values are strings
re_match(p, s) ==
    LET n == PosOf(p, Len(p))
    IN IF /\ Len(s) >= n
          /\ \A i \in 1..Len(p) :
                Consumes(p[i]) => AtomMatches(p[i], s[PosOf(p, i)])
       THEN Some([g \in GroupNames(p) |-> GroupText(p, s, g)])
       ELSE None

\* ------------------------------------------------------------------------
\* The type tables (types.py, inst.py)
\* ------------------------------------------------------------------------
\* AcqTypeTbl     : rows [id, name, info_class]           in insertion order
\* FileTypeTbl    : rows [id, name, info_class, pattern]  in insertion order
\* AcqFileTypesTbl: set of rows [acq_type, file_type] (ids; composite key)
\* ArchiveInstTbl : rows [id, name]                       in insertion order
\* The free-text notes columns are not modelled.

Rows(tbl) == {tbl[i] : i \in 1..Len(tbl)}

\* Model.get(name=n): the row, or None for DoesNotExist
GetByName(tbl, n) ==
    LET hits == {i \in 1..Len(tbl) : tbl[i].name = n}
    IN IF hits = {} THEN None
       ELSE Some(tbl[CHOOSE i \in hits : \A j \in hits : i <= j])

AllFileTypes(acqtype) == Rows(FileTypeTbl)

\* AcqType.file_types: FileType JOIN AcqFileTypes WHERE acq_type = self
file_types(acqtype) ==
    {ft \in Rows(FileTypeTbl) :
        \E r \in AcqFileTypesTbl :
            r.file_type = ft.id /\ r.acq_type = acqtype.id}

Perms(S) ==
    {f \in [1..Cardinality(S) -> S] : \A x \in S : \E i \in DOMAIN f : f[i] = x}

\* The select has no ORDER BY: the database may return the rows in any order
QueryOrders(acqtype) == Perms(file_types(acqtype))

\* ------------------------------------------------------------------------
\* detection.py: parse_acq, import_detect
\* ------------------------------------------------------------------------

AcceptsFourParts(parts) == Len(parts) >= 3

\* "If we don't have three parts, the path is invalid"
HasThreeParts(parts) == Len(parts) = 3

Uncaught(found) == [raised |-> found = None, data |-> None]

\* the except clauses of parse_acq turn a failed lookup or parse into None
Caught(found) == [raised |-> FALSE, data |-> None]

\* [raised, data]: data is None or the dict {acqtime, acqinst, acqtype}
parse_acq(name) ==
    LET parts == split(name)
    IN IF ~HasThreeParts(parts) THEN [raised |-> FALSE, data |-> None]
       ELSE LET acqtype == GetByName(AcqTypeTbl, parts[3])
                inst    == GetByName(ArchiveInstTbl, parts[2])
                time    == strptime(parts[1])
            IN IF acqtype = None THEN Caught(acqtype)
               ELSE IF inst = None THEN Caught(inst)
               ELSE IF time = None THEN Caught(time)
               ELSE [raised |-> FALSE,
                     data |-> Some([acqtime |-> time[1], acqinst |-> inst[1],
                                    acqtype |-> acqtype[1]])]

TryMatchNoneCheckDropped(filetype, file_name) ==
    IF filetype.pattern = None THEN Some(<<>>)
    ELSE re_match(filetype.pattern[1], file_name)

\* "if filetype.pattern is not None: m = re.match(...)"
TryMatch(filetype, file_name) ==
    IF filetype.pattern = None THEN None
    ELSE re_match(filetype.pattern[1], file_name)

\* The for/else loop over the candidate file types, from index i on:
\* out is "raise" (re.error), "break" (filetype and m set) or "else".
RECURSIVE DetectLoop(_, _, _)
DetectLoop(order, i, file_name) ==
    IF i > Len(order)
    THEN [out |-> "else", filetype |-> None, m |-> None]
    ELSE IF order[i].pattern # None /\ ~WellFormed(order[i].pattern[1])
    THEN [out |-> "raise", filetype |-> None, m |-> None]
    ELSE LET m == TryMatch(order[i], file_name)
         IN IF m # None
            THEN [out |-> "break", filetype |-> Some(order[i]), m |-> m]
            ELSE DetectLoop(order, i + 1, file_name)

Returns(acq_name, callback) ==
    [raised |-> FALSE, acq_name |-> acq_name, callback |-> callback]

Raises == [raised |-> TRUE, acq_name |-> None, callback |-> None]

SuccessKeyIsFileName(acq_name, file_name, import_data, filetype, m) ==
    Returns(Some(file_name),
            Some([acqtime |-> import_data.acqtime,
                  acqinst |-> import_data.acqinst,
                  acqtype |-> import_data.acqtype,
                  filetype |-> filetype, name_data |-> m]))

\* "Remember filetype ... Create partial for callback ... Success": the
\* callback is store_info with import_data bound, modelled as import_data
Success(acq_name, file_name, import_data, filetype, m) ==
    Returns(Some(acq_name),
            Some([acqtime |-> import_data.acqtime,
                  acqinst |-> import_data.acqinst,
                  acqtype |-> import_data.acqtype,
                  filetype |-> filetype, name_data |-> m]))

\* order: the order in which the file_types query yields its rows
import_detect(path, order) ==
    LET acq_name  == PathParent(path)
        file_name == PathName(path)
        parsed    == parse_acq(acq_name)
    IN IF parsed.raised THEN Raises
       ELSE IF parsed.data = None THEN Returns(None, None)
       ELSE LET loop == DetectLoop(order, 1, file_name)
            IN CASE loop.out = "raise" -> Raises
                 [] loop.out = "else"  -> Returns(None, None)
                 [] loop.out = "break" ->
                      Success(acq_name, file_name, parsed.data[1],
                              loop.filetype[1], loop.m[1])

\* ------------------------------------------------------------------------
\* Inputs: names, file names, patterns, catalogs
\* ------------------------------------------------------------------------

s_corr == <<"c", "o", "r", "r">>

s_weather == <<"w", "e", "a", "t", "h", "e", "r">>

s_hk == <<"h", "k">>

s_log == <<"l", "o", "g">>

s_bogus == <<"b", "o", "g", "u", "s">>

s_chime == <<"c", "h", "i", "m", "e">>

s_chimetiming == <<"c", "h", "i", "m", "e", "t", "i", "m", "i", "n", "g">>

s_stone == <<"s", "t", "o", "n", "e">>

s_nobody == <<"n", "o", "b", "o", "d", "y">>

\* 20220129T233553Z
ts_strict == <<"2", "0", "2", "2", "0", "1", "2", "9", "T", "2", "3", "3", "5", "5", "3", "Z">>

\* 2022129T233553Z: one-digit month and day
ts_short == <<"2", "0", "2", "2", "1", "2", "9", "T", "2", "3", "3", "5", "5", "3", "Z">>

\* 20220230T000000Z: no such day
ts_baddate == <<"2", "0", "2", "2", "0", "2", "3", "0", "T", "0", "0", "0", "0", "0", "0", "Z">>

f_corr == <<"0", "0", "0", "0", "0", "0", "0", "0", "_", "0", "0", "0", "0", ".", "h", "5">>

f_corr_bak == <<"0", "0", "0", "0", "0", "0", "0", "0", "_", "0", "0", "0", "0", ".", "h", "5", ".", "b", "a", "k">>

f_weather == <<"2", "0", "2", "2", "1", "1", "0", "6", ".", "h", "5">>

f_rawadc == <<"0", "0", "0", "0", "0", "3", ".", "h", "5">>

f_readme == <<"r", "e", "a", "d", "m", "e", ".", "t", "x", "t">>

RECURSIVE Repeat(_, _)
Repeat(a, n) == IF n = 0 THEN <<>> ELSE <<a>> \o Repeat(a, n - 1)

\* (?P<chunk_number>[0-9]{8})_(?P<freq_number>[0-9]{4})\.h5
p_corr ==
    <<Open("chunk_number")>> \o Repeat(Dig, 8) \o <<Close, Lit("_"),
      Open("freq_number")>> \o Repeat(Dig, 4)
    \o <<Close, Lit("."), Lit("h"), Lit("5")>>

\* [0-9]{8}
p_8digits == Repeat(Dig, 8)

\* [0-9]{8}\.h5
p_8h5 == Repeat(Dig, 8) \o <<Lit("."), Lit("h"), Lit("5")>>

\* ([0-9]{8}  -- not a regular expression
p_unclosed == <<Open("chunk_number")>> \o Repeat(Dig, 8)

PatternChoices == {None, Some(p_corr), Some(p_8digits), Some(p_unclosed)}

JoinUnderscore(a, b, c) == a \o <<"_">> \o b \o <<"_">> \o c

MaxFileTypes == 2

at_corr == [id |-> 1, name |-> s_corr, info_class |-> Some(<<"CorrAcqInfo">>)]

at_weather == [id |-> 5, name |-> s_weather, info_class |-> None]

inst_chime == [id |-> 25, name |-> s_chime]

inst_chimetiming == [id |-> 263, name |-> s_chimetiming]

FileTypeNamePool == <<s_corr, s_weather, s_log, s_hk>>

\* every FileType table of MaxFileTypes rows over the pattern choices
FileTypeTables ==
    {[i \in 1..MaxFileTypes |->
         [id |-> i, name |-> FileTypeNamePool[i], info_class |-> None,
          pattern |-> pats[i]]] :
       pats \in [1..MaxFileTypes -> PatternChoices]}

DetectCatalogs ==
    {<<<<>>, <<>>, {}, <<>>>>}
    \cup
    {<<<<at_corr, at_weather>>, ft, aft, <<inst_chime, inst_chimetiming>>>> :
        ft \in FileTypeTables,
        aft \in {a \cup w :
                   a \in SUBSET {[acq_type |-> 1, file_type |-> i] :
                                    i \in 1..MaxFileTypes},
                   w \in {{}, {[acq_type |-> 5, file_type |-> 1]}}}}

DetectAcqNames ==
    {JoinUnderscore(ts, i, t) :
        ts \in {ts_strict, ts_short, ts_baddate},
        i \in {s_chime, s_nobody},
        t \in {s_corr, s_weather, s_bogus}}
    \cup {ts_strict \o <<"_">> \o s_corr,
          JoinUnderscore(ts_strict, s_chime, s_corr) \o <<"_">> \o s_corr}

DetectFileNames == {f_corr, f_corr_bak, f_weather, f_readme}

DetectPaths ==
    {<<a, f>> : a \in DetectAcqNames, f \in DetectFileNames}
    \cup {<<f>> : f \in DetectFileNames}
    \cup {<<s_stone, JoinUnderscore(ts_strict, s_chime, s_corr), f_corr>>}

NoCall == [op |-> "none"]

InitDetect ==
    /\ \E c \in DetectCatalogs :
          /\ AcqTypeTbl = c[1]
          /\ FileTypeTbl = c[2]
          /\ AcqFileTypesTbl = c[3]
          /\ ArchiveInstTbl = c[4]
    /\ ArchiveAcqTbl = <<>>
    /\ ArchiveFileTbl = <<>>
    /\ InfoTbl = <<>>
    /\ result = None
    /\ last = NoCall
    /\ NoNode
    /\ Idle

\* the orders in which the file_types query of import_detect(path) may
\* yield its rows
OrdersFor(path) ==
    LET parsed == parse_acq(PathParent(path))
    IN IF parsed.data = None THEN {<<>>}
       ELSE QueryOrders(parsed.data[1].acqtype)

\* alpenhornd calls import_detect(path, node); a behaviour of SpecDetect
\* applies it once to the catalog and path it drew
ImportDetect(path) ==
    /\ result = None
    /\ \E order \in OrdersFor(path) :
        /\ result' = Some(import_detect(path, order))
        /\ last' = [op |-> "import_detect", path |-> path, order |-> order]
        /\ UNCHANGED <<catalog, archive, reserving, stepping>>

NextDetect == \E path \in DetectPaths : ImportDetect(path)

SpecDetect == InitDetect /\ [][NextDetect]_vars

\* ------------------------------------------------------------------------
\* parse_acq over a family of timestamps
\* ------------------------------------------------------------------------

Yopt == {<<"2", "0", "2", "2">>, <<"2", "0", "2", "4">>, <<"2", "2">>}

mopt == {<<"0", "1">>, <<"1">>, <<"0", "2">>, <<"1", "2">>, <<"1", "3">>}

dopt == {<<"2", "9">>, <<"9">>, <<"3", "0">>, <<"3", "1">>, <<" ", "1">>}

Topt == {<<"T">>, <<"t">>, <<"-">>, <<>>}

Hopt == {<<"2", "3">>, <<"2", "4">>, <<"3">>}

Mopt == {<<"3", "5">>, <<"5">>}

Sopt == {<<"5", "3">>, <<"6", "0">>, <<"3">>}

Zopt == {<<"Z">>, <<"z">>, <<>>, <<"Z", "Z">>}

TimeStrs ==
    {Y \o m \o d \o T \o H \o M \o S \o Z :
        Y \in Yopt, m \in mopt, d \in dopt, T \in Topt,
        H \in Hopt, M \in Mopt, S \in Sopt, Z \in Zopt}

ParseNames ==
    {JoinUnderscore(ts, s_chime, s_corr) : ts \in TimeStrs}
    \cup {JoinUnderscore(ts_strict, s_nobody, s_corr),
          JoinUnderscore(ts_strict, s_chime, s_bogus)}

InitParse ==
    /\ AcqTypeTbl = <<at_corr, at_weather>>
    /\ FileTypeTbl = <<>>
    /\ AcqFileTypesTbl = {}
    /\ ArchiveInstTbl = <<inst_chime, inst_chimetiming>>
    /\ ArchiveAcqTbl = <<>>
    /\ ArchiveFileTbl = <<>>
    /\ InfoTbl = <<>>
    /\ result = None
    /\ last = NoCall
    /\ NoNode
    /\ Idle

ParseAcq(name) ==
    /\ result' = Some(parse_acq(name))
    /\ last' = [op |-> "parse_acq", name |-> name]
    /\ UNCHANGED <<catalog, archive, reserving, stepping>>

\* a behaviour of SpecParse applies parse_acq once to the name it drew
NextParse == result = None /\ \E name \in ParseNames : ParseAcq(name)

SpecParse == InitParse /\ [][NextParse]_vars

\* ------------------------------------------------------------------------
\* util.py: update_types, update_inst
\* ------------------------------------------------------------------------
\* An info_class string is a sequence of tokens: the sigil "=", the prefix
\* "alpenhorn_chime.info." and the name are one token each.

s_rawadc == <<"r", "a", "w", "a", "d", "c">>

s_hkp == <<"h", "k", "p">>

s_digitalgain == <<"d", "i", "g", "i", "t", "a", "l", "g", "a", "i", "n">>

s_gain == <<"g", "a", "i", "n">>

s_flaginput == <<"f", "l", "a", "g", "i", "n", "p", "u", "t">>

s_hfb == <<"h", "f", "b">>

s_atmel_id == <<"a", "t", "m", "e", "l", "_", "i", "d">>

s_pdf == <<"p", "d", "f">>

s_calibration == <<"c", "a", "l", "i", "b", "r", "a", "t", "i", "o", "n">>

f_corr2 == <<"0", "0", "0", "0", "0", "0", "0", "1", "_", "0", "0", "0", "0", ".", "h", "5">>

f_log == <<"r", "u", "n", ".", "l", "o", "g">>

InfoPrefix == "alpenhorn_chime.info."

typedictPrefixFirst(id_, name, info_class) ==
    [id |-> id_, name |-> name,
     info_class |->
        IF info_class = None THEN None
        ELSE Some(<<InfoPrefix>> \o info_class[1])]

typedict(id_, name, info_class) ==
    [id |-> id_, name |-> name,
     info_class |->
        IF info_class = None THEN None
        ELSE IF info_class[1][1] = "="
        THEN Some(<<"=", InfoPrefix>> \o Tail(info_class[1]))
        ELSE Some(<<InfoPrefix>> \o info_class[1])]

\* List of known acqtypes
acqtypes ==
    <<typedict(1, s_corr, Some(<<"CorrAcqInfo">>)),
      typedict(2, s_hk, None),
      typedict(3, s_rawadc, Some(<<"RawadcAcqInfo">>)),
      typedict(5, s_weather, Some(<<"WeatherAcqDetect">>)),
      typedict(6, s_hkp, None),
      typedict(7, s_digitalgain, Some(<<"DigitalGainAcqDetect">>)),
      typedict(8, s_gain, Some(<<"CalibrationGainAcqDetect">>)),
      typedict(9, s_flaginput, Some(<<"FlagInputAcqDetect">>)),
      typedict(11, s_hfb, Some(<<"HFBAcqInfo">>))>>

\* List of known filetypes
filetypes ==
    <<typedict(1, s_corr, Some(<<"CorrFileInfo">>)),
      typedict(2, s_log, None),
      typedict(3, s_hk, None),
      typedict(4, s_atmel_id, None),
      typedict(5, s_rawadc, Some(<<"RawadcFileInfo">>)),
      typedict(6, s_pdf, None),
      typedict(10, s_weather, Some(<<"WeatherFileInfo">>)),
      typedict(11, s_hkp, None),
      typedict(12, s_calibration, Some(<<"=", "cal_info_class">>)),
      typedict(14, s_hfb, Some(<<"HFBFileInfo">>))>>

\* The acqtype-to-filetype mapping
TypeMapping ==
    <<<<s_corr, s_corr>>, <<s_rawadc, s_rawadc>>, <<s_weather, s_weather>>,
      <<s_digitalgain, s_calibration>>, <<s_gain, s_calibration>>,
      <<s_flaginput, s_calibration>>, <<s_hfb, s_hfb>>>>

HasId(tbl, id_, except) ==
    \E j \in 1..Len(tbl) : j \notin except /\ tbl[j].id = id_

InsertOnly(tbl, row, blank) ==
    IF \E j \in 1..Len(tbl) : tbl[j].id = row.id \/ tbl[j].name = row.name
    THEN None
    ELSE Some(Append(tbl, [c \in DOMAIN blank |->
                             IF c \in DOMAIN row THEN row[c] ELSE blank[c]]))

\* Model.update(**row).where(name == row["name"]), then insert(**row) if no
\* row was updated.  The update sets the columns of the seed row only (a
\* FileType keeps its pattern); an insert leaves the other columns NULL.
\* None stands for IntegrityError (the id is taken by another row).
Upsert(tbl, row, blank) ==
    LET hits == {i \in 1..Len(tbl) : tbl[i].name = row.name}
    IN IF HasId(tbl, row.id, hits) \/ Cardinality(hits) > 1 THEN None
       ELSE IF hits # {}
       THEN Some([i \in 1..Len(tbl) |->
                    IF i \in hits
                    THEN [tbl[i] EXCEPT !.id = row.id,
                                        !.info_class = row.info_class]
                    ELSE tbl[i]])
       ELSE Some(Append(tbl, [c \in DOMAIN blank |->
                                IF c \in DOMAIN row THEN row[c] ELSE blank[c]]))

RECURSIVE UpsertAll(_, _, _, _)
UpsertAll(tbl, rows, i, blank) ==
    IF i > Len(rows) THEN Some(tbl)
    ELSE CHOOSE out \in
           {IF t = None THEN None ELSE UpsertAll(t[1], rows, i + 1, blank) :
              t \in {Upsert(tbl, rows[i], blank)}} : TRUE

BlankAcqType == [id |-> 0, name |-> <<>>, info_class |-> None]

BlankFileType == [id |-> 0, name |-> <<>>, info_class |-> None, pattern |-> None]

AnyAcq(r, at) == TRUE

\* AcqFileTypes.acq_type == at
SameAcq(r, at) == r.acq_type = at.id

NoOtherFile(r, ft) == FALSE

\* AcqFileTypes.file_type != ft
OtherFile(r, ft) == r.file_type # ft.id

\* "First delete anything extra for this acq; then add, if necessary"
RECURSIVE MapAll(_, _, _, _)
MapAll(aft, at_tbl, ft_tbl, i) ==
    IF i > Len(TypeMapping) THEN aft
    ELSE LET at == GetByName(at_tbl, TypeMapping[i][1])[1]
             ft == GetByName(ft_tbl, TypeMapping[i][2])[1]
             kept == {r \in aft : ~(SameAcq(r, at) /\ OtherFile(r, ft))}
         IN MapAll(kept \cup {[acq_type |-> at.id, file_type |-> ft.id]},
                   at_tbl, ft_tbl, i + 1)

\* [raised, at, ft, aft]: the three tables after update_types; the
\* function is atomic, an exception leaves them as they were
update_types(at_tbl, ft_tbl, aft) ==
    CHOOSE out \in
      {IF at = None \/ ft = None
       THEN [raised |-> TRUE, at |-> at_tbl, ft |-> ft_tbl, aft |-> aft]
       ELSE [raised |-> FALSE, at |-> at[1], ft |-> ft[1],
             aft |-> MapAll(aft, at[1], ft[1], 1)] :
         at \in {UpsertAll(at_tbl, acqtypes, 1, BlankAcqType)},
         ft \in {UpsertAll(ft_tbl, filetypes, 1, BlankFileType)}} : TRUE

\* The rows of update_inst that the acquisitions modelled here name; the
\* other rows of the list (ids 2..269) are inserted the same way.
inst ==
    <<[id |-> 1, name |-> s_stone], [id |-> 25, name |-> s_chime],
      [id |-> 263, name |-> s_chimetiming]>>

\* ArchiveInst.insert_many(inst): [raised, tbl]; IntegrityError when an id
\* or a name is taken
update_inst(tbl) ==
    IF \E i \in 1..Len(tbl), j \in 1..Len(inst) :
          tbl[i].id = inst[j].id \/ tbl[i].name = inst[j].name
    THEN [raised |-> TRUE, tbl |-> tbl]
    ELSE [raised |-> FALSE, tbl |-> tbl \o inst]

\* ------------------------------------------------------------------------
\* detection.py: set_info, store_info; the import run that calls them
\* ------------------------------------------------------------------------
\* ArchiveAcqTbl : rows [id, name, type, inst]   (type, inst: None or an id)
\* ArchiveFileTbl: rows [id, acq, name, type]
\* InfoTbl       : the saved info records [cls, kind, item, fields]

\* the classes that alpenhorn_chime.info exposes (info/__init__.py)
AcqInfoClasses == {"CorrAcqInfo", "HFBAcqInfo", "RawadcAcqInfo"}

FileInfoClasses ==
    {"CorrFileInfo", "HFBFileInfo", "RawadcFileInfo", "WeatherFileInfo",
     "DigitalGainFileInfo", "CalibrationGainFileInfo", "FlagInputFileInfo"}

\* "No-table acq info" classes
AcqDetectClasses ==
    {"WeatherAcqDetect", "DigitalGainAcqDetect", "CalibrationGainAcqDetect",
     "FlagInputAcqDetect"}

InfoFunctions == {"cal_info_class"}

InfoAttrs ==
    AcqInfoClasses \cup AcqDetectClasses \cup InfoFunctions
    \cup (FileInfoClasses
            \ {"DigitalGainFileInfo", "CalibrationGainFileInfo",
               "FlagInputFileInfo"})

\* info/cal.py cal_info_class(acqtype): by the name of its argument; None
\* stands for ValueError
cal_info_class(acqtype) ==
    IF acqtype.name = s_digitalgain THEN Some("DigitalGainFileInfo")
    ELSE IF acqtype.name = s_gain THEN Some("CalibrationGainFileInfo")
    ELSE IF acqtype.name = s_flaginput THEN Some("FlagInputFileInfo")
    ELSE None

Outcomes == {"ok", "fail"}

\* the value of a field that was read from the file
FromFile == <<"from file">>

\* the keys of the dict that _info_from_file returns, by info class
ContentFields(cls) ==
    CASE cls = "CorrAcqInfo" -> {"integration", "nfreq", "nprod"}
      [] cls = "HFBAcqInfo"  -> {"integration", "nfreq", "nsubfreq", "nbeam"}
      [] cls \in {"RawadcAcqInfo", "WeatherFileInfo"} -> {}
      [] OTHER -> {"start_time", "finish_time"}

info_from_file(cls) == [k \in ContentFields(cls) |-> FromFile]

MergeContentWins(info, name_data) ==
    [k \in DOMAIN info \cup DOMAIN name_data |->
        IF k \in DOMAIN info THEN info[k] ELSE name_data[k]]

\* "return info | name_data": the right operand wins
Merge(info, name_data) ==
    [k \in DOMAIN info \cup DOMAIN name_data |->
        IF k \in DOMAIN name_data THEN name_data[k] ELSE info[k]]

\* CHIMEAcqInfo._set_info: name_data is "ignored"
CHIMEAcqInfo_set_info(cls, name_data) == info_from_file(cls)

CHIMEFileInfo_set_info(cls, name_data) == Merge(info_from_file(cls), name_data)

\* days from 1970-01-01 to the given date (calendar.timegm)
DaysBefore(y) == 365 * (y - 1) + (y - 1) \div 4 - (y - 1) \div 100 + (y - 1) \div 400

RECURSIVE DayOfYear(_, _, _)
DayOfYear(y, m, d) ==
    IF m = 1 THEN d ELSE DaysInMonth(y, m - 1) + DayOfYear(y, m - 1, d)

timegm(y, m, d) ==
    86400 * (DaysBefore(y) + DayOfYear(y, m, d) - 1 - DaysBefore(1970))

\* WeatherFileInfo._set_info(self, node, path, item): strptime of the first
\* eight characters of str(path) with "%Y%m%d"; None stands for ValueError.
\* The record's date is the datetime, not the text.
WeatherFileInfo_set_info(path) ==
    LET s == SubSeq(JoinSlash(path), 1, 8)
        y == IntOf(SubSeq(s, 1, 4))
        m == IntOf(SubSeq(s, 5, 6))
        d == IntOf(SubSeq(s, 7, 8))
    IN IF Len(JoinSlash(path)) < 8
          \/ (\E i \in 1..6 : s[i] \notin Digit)
          \/ s[7] \notin Digit \cup {" "} \/ s[8] \notin Digit
          \/ y < 1 \/ m \notin 1..12 \/ d < 1 \/ d > DaysInMonth(y, m)
       THEN None
       ELSE Some([start_time |-> timegm(y, m, d),
                  finish_time |-> timegm(y, m, d) + 86399,
                  date |-> [year |-> y, month |-> m, day |-> d,
                            hour |-> 0, minute |-> 0, second |-> 0]])

\* "kwargs |= self._set_info(path=path, node=node, name_data=name_data)"
SetInfoKeywords == {"path", "node", "name_data"}

\* the parameters of the _set_info that the class resolves to
SetInfoParams(cls) ==
    IF cls \in {"WeatherFileInfo", "RawadcAcqInfo"}
    THEN {"node", "path", "item"}
    ELSE {"path", "node", "name_data"}

\* InfoBase.__init__(item_, node_, path_, name_data_): the field data of the
\* new row, or None when _set_info raises (TypeError for a keyword that is
\* not a parameter; whatever opening and reading the file raises).
\* RawadcAcqInfo._set_info cannot be entered with these keywords.
InfoBase_init(cls, path, name_data, outcome) ==
    IF ~(SetInfoKeywords \subseteq SetInfoParams(cls)) THEN None
    ELSE IF cls = "WeatherFileInfo" THEN WeatherFileInfo_set_info(path)
    ELSE IF outcome = "fail" THEN None
    ELSE IF cls \in AcqInfoClasses
    THEN Some(CHIMEAcqInfo_set_info(cls, name_data))
    ELSE Some(CHIMEFileInfo_set_info(cls, name_data))

SavedAnyway(cls, item, name_data) ==
    Some([cls |-> cls,
          kind |-> IF cls \in AcqInfoClasses THEN "acq" ELSE "file",
          item |-> item.id, fields |-> name_data])

\* the constructor raised: "info.save()" is not reached
Unsaved(cls, item, name_data) == None

NeverNone(info_name) == FALSE

\* "if info_name is None"
IsNone(info_name) == info_name = None

\* the calls of node.io.open that the constructor of the class makes: one
\* when _set_info is entered and the class has _info_from_file
Opens(cls) ==
    IF SetInfoKeywords \subseteq SetInfoParams(cls) /\ ContentFields(cls) # {}
    THEN 1 ELSE 0

\* set_info(info_name, node, path, item, name_data): [raised, why,
\* rec, opens] where rec is the record saved, if any, and why tells a failure of the lookup of
\* the class ("lookup": getattr or the class-providing function raised) from
\* a failure of the constructor ("extract").  outcome says whether opening
\* and reading the file succeeds.
set_info(info_name, path, item, name_data, outcome) ==
    IF IsNone(info_name)
    THEN [raised |-> FALSE, why |-> "none", rec |-> None, opens |-> 0]
    ELSE IF info_name = None \/ Len(info_name[1]) # 1
            \/ info_name[1][1] \notin InfoAttrs
    THEN [raised |-> TRUE, why |-> "lookup", rec |-> None, opens |-> 0]
    ELSE LET attr == info_name[1][1]
             class_ == IF attr \in InfoFunctions THEN cal_info_class(item)
                       ELSE Some(attr)
         IN IF class_ = None
            THEN [raised |-> TRUE, why |-> "lookup", rec |-> None, opens |-> 0]
            ELSE IF class_[1] \in AcqDetectClasses
            THEN [raised |-> FALSE, why |-> "none", rec |-> None, opens |-> 0]
            ELSE LET data == InfoBase_init(class_[1], path, name_data, outcome)
                 IN IF data = None
                    THEN [raised |-> TRUE, why |-> "extract",
                          rec |-> Unsaved(class_[1], item, name_data),
                          opens |-> Opens(class_[1])]
                    ELSE [raised |-> FALSE, why |-> "none",
                          rec |-> Some([cls |-> class_[1],
                                        kind |-> IF class_[1] \in AcqInfoClasses
                                                 THEN "acq" ELSE "file",
                                        item |-> item.id,
                                        fields |-> data[1]]),
                          opens |-> Opens(class_[1])]

NoIntegerFields(cls) == {}

\* the columns a file info class declares as pw.IntegerField
IntegerFields(cls) ==
    IF cls \in {"CorrFileInfo", "HFBFileInfo"}
    THEN {"chunk_number", "freq_number"} ELSE {}

IsDigits(v) == Len(v) > 0 /\ \A i \in 1..Len(v) : v[i] \in Digit

\* what save() writes for a field: an IntegerField adapts its value with
\* int(), so the text of a capture group is stored as the number it spells
\* ([int |-> n]); any other value is stored as it is ([raw |-> v])
db_value(cls, k, v) ==
    IF k \in IntegerFields(cls) /\ IsDigits(v) THEN [int |-> IntOf(v)]
    ELSE [raw |-> v]

\* the row of the info table that a saved record is
Persisted(rec) ==
    [k \in DOMAIN rec.fields |-> db_value(rec.cls, k, rec.fields[k])]

RowById(tbl, id_) == tbl[CHOOSE i \in 1..Len(tbl) : tbl[i].id = id_]

AlwaysGiven(arg) == TRUE

\* "if acq is not None", "if file is not None"
IsGiven(arg) == arg # None

AddRec(infos, si) == IF si.rec = None THEN infos ELSE Append(infos, si.rec[1])

NotRaised == [raised |-> FALSE, why |-> "none", rec |-> None, opens |-> 0]

Swallowed(si) == FALSE

\* an exception of the acquisition's set_info call leaves store_info, which
\* has no try statement: the statements after the call are not run
Propagates(si) == si.raised

\* store_info(copy, file, acq, node, import_data=import_data) on the tables
\* acqs, files, infos: [raised, why, at, acqs, files, infos].  copy is
\* [file, acq, path]: the ids of the copy's file and of its acquisition
\* (file.id and acq.id when file and acq are given) and copy.file.path.
\* at names the set_info call that raised.
store_info(acqs, files, infos, copy, file, acq, import_data, acq_out, file_out) ==
    LET acqs1 == IF IsGiven(acq)
                 THEN [i \in 1..Len(acqs) |->
                         IF acqs[i].id = copy.acq
                         THEN [acqs[i] EXCEPT
                                 !.type = Some(import_data.acqtype.id),
                                 !.inst = Some(import_data.acqinst.id)]
                         ELSE acqs[i]]
                 ELSE acqs
        si1 == IF IsGiven(acq)
               THEN set_info(import_data.acqtype.info_class, copy.path,
                             RowById(acqs1, copy.acq),
                             [acqtime |-> import_data.acqtime], acq_out)
               ELSE NotRaised
        infos1 == AddRec(infos, si1)
        files1 == IF IsGiven(file)
                  THEN [i \in 1..Len(files) |->
                          IF files[i].id = copy.file
                          THEN [files[i] EXCEPT
                                  !.type = Some(import_data.filetype.id)]
                          ELSE files[i]]
                  ELSE files
        si2 == IF IsGiven(file)
               THEN set_info(import_data.filetype.info_class, copy.path,
                             RowById(files1, copy.file),
                             import_data.name_data, file_out)
               ELSE NotRaised
    IN IF Propagates(si1)
       THEN [raised |-> TRUE, why |-> si1.why, at |-> "acq",
             acqs |-> acqs1, files |-> files, infos |-> infos1,
             opens |-> [acq |-> si1.opens, file |-> 0]]
       ELSE [raised |-> si2.raised, why |-> si2.why,
             at |-> IF si2.raised THEN "file" ELSE "none",
             acqs |-> acqs1, files |-> files1, infos |-> AddRec(infos1, si2),
             opens |-> [acq |-> si1.opens, file |-> si2.opens]]

FindAcq(name) == {i \in 1..Len(ArchiveAcqTbl) : ArchiveAcqTbl[i].name = name}

FindFile(acq_id, name) ==
    {i \in 1..Len(ArchiveFileTbl) :
        ArchiveFileTbl[i].acq = acq_id /\ ArchiveFileTbl[i].name = name}

\* the number of files an import run registers
MaxFiles == 2

\* An import by alpenhornd: import_detect, then (on success) the ArchiveAcq
\* and ArchiveFile rows are fetched or created and the callback is called
\* with the rows this import created, None for those that existed.
Import(path) ==
    \E order \in OrdersFor(path) :
    \E det \in {import_detect(path, order)} :
      IF det.acq_name = None
      THEN /\ result' = Some(det)
           /\ last' = [op |-> "import", path |-> path, called |-> FALSE,
                       acq |-> None, file |-> None, raised |-> det.raised,
                       why |-> "none", at |-> "none"]
           /\ UNCHANGED <<catalog, archive, reserving, stepping>>
      ELSE LET new_acq  == FindAcq(det.acq_name[1]) = {}
               acq_id   == IF new_acq THEN Len(ArchiveAcqTbl) + 1
                           ELSE ArchiveAcqTbl[CHOOSE i \in FindAcq(det.acq_name[1]) : TRUE].id
               acqs     == IF new_acq
                           THEN Append(ArchiveAcqTbl,
                                  [id |-> acq_id, name |-> det.acq_name[1],
                                   type |-> None, inst |-> None])
                           ELSE ArchiveAcqTbl
               new_file == FindFile(acq_id, PathName(path)) = {}
               file_id  == IF new_file THEN Len(ArchiveFileTbl) + 1
                           ELSE ArchiveFileTbl[CHOOSE i \in FindFile(acq_id, PathName(path)) : TRUE].id
               files    == IF new_file
                           THEN Append(ArchiveFileTbl,
                                  [id |-> file_id, acq |-> acq_id,
                                   name |-> PathName(path), type |-> None])
                           ELSE ArchiveFileTbl
               acq      == IF new_acq THEN Some(acq_id) ELSE None
               file     == IF new_file THEN Some(file_id) ELSE None
               copy     == [file |-> file_id, acq |-> acq_id, path |-> path]
           IN /\ new_file => Len(ArchiveFileTbl) < MaxFiles
              /\ \E acq_out \in Outcomes, file_out \in Outcomes :
                 \E out \in {store_info(acqs, files, InfoTbl, copy, file, acq,
                                        det.callback[1], acq_out, file_out)} :
                 /\ ArchiveAcqTbl' = out.acqs
                 /\ ArchiveFileTbl' = out.files
                 /\ InfoTbl' = out.infos
                 /\ result' = Some(det)
                 /\ last' = [op |-> "import", path |-> path, called |-> TRUE,
                             acq |-> acq, file |-> file, raised |-> out.raised,
                             why |-> out.why, at |-> out.at,
                             opens |-> out.opens]
                 /\ UNCHANGED <<catalog, reserving, stepping>>

UpdateTypes ==
    \E out \in {update_types(AcqTypeTbl, FileTypeTbl, AcqFileTypesTbl)} :
       /\ AcqTypeTbl' = out.at
       /\ FileTypeTbl' = out.ft
       /\ AcqFileTypesTbl' = out.aft
       /\ result' = Some([raised |-> out.raised])
       /\ last' = [op |-> "update_types",
                   again |-> last.op = "update_types",
                   removed |-> AcqFileTypesTbl \ out.aft]
       /\ UNCHANGED <<ArchiveInstTbl, archive, reserving, stepping>>

UpdateInst ==
    \E out \in {update_inst(ArchiveInstTbl)} :
       /\ ArchiveInstTbl' = out.tbl
       /\ result' = Some([raised |-> out.raised])
       /\ last' = [op |-> "update_inst"]
       /\ UNCHANGED <<AcqTypeTbl, FileTypeTbl, AcqFileTypesTbl, archive, reserving, stepping>>

\* run\.log
p_log == <<Lit("r"), Lit("u"), Lit("n"), Lit("."), Lit("l"), Lit("o"), Lit("g")>>

\* (?P<start_time>[0-9]{8})_(?P<freq_number>[0-9]{4})\.h5
p_corr_start ==
    <<Open("start_time")>> \o Repeat(Dig, 8) \o <<Close, Lit("_"),
      Open("freq_number")>> \o Repeat(Dig, 4)
    \o <<Close, Lit("."), Lit("h"), Lit("5")>>

\* 20221101T000000Z
ts_weather == <<"2", "0", "2", "2", "1", "1", "0", "1", "T", "0", "0", "0", "0", "0", "0", "Z">>

\* 20210321T121000Z
ts_digitalgain == <<"2", "0", "2", "1", "0", "3", "2", "1", "T", "1", "2", "1", "0", "0", "0", "Z">>

\* 00001101.h5
f_digitalgain == <<"0", "0", "0", "0", "1", "1", "0", "1", ".", "h", "5">>

\* 20230213T201433Z
ts_rawadc == <<"2", "0", "2", "3", "0", "2", "1", "3", "T", "2", "0", "1", "4", "3", "3", "Z">>

\* [0-9]{6}\.h5
p_6h5 == Repeat(Dig, 6) \o <<Lit("."), Lit("h"), Lit("5")>>

EmptyCatalog == <<<<>>, <<>>, {}, <<>>>>

\* a catalog whose patterns and info classes were entered by hand, the ids
\* being those of update_types
ManualTypes(corr_pattern) ==
    <<<<at_corr, [id |-> 2, name |-> s_hk, info_class |-> None],
        [id |-> 3, name |-> s_rawadc,
         info_class |-> Some(<<"RawadcAcqInfo">>)],
        [id |-> 5, name |-> s_weather,
         info_class |-> Some(<<"WeatherAcqDetect">>)],
        [id |-> 7, name |-> s_digitalgain,
         info_class |-> Some(<<"DigitalGainAcqDetect">>)]>>,
      <<[id |-> 1, name |-> s_corr, info_class |-> Some(<<"CorrFileInfo">>),
         pattern |-> Some(corr_pattern)],
        [id |-> 2, name |-> s_log, info_class |-> None,
         pattern |-> Some(p_log)],
        [id |-> 5, name |-> s_rawadc,
         info_class |-> Some(<<"RawadcFileInfo">>), pattern |-> Some(p_6h5)],
        [id |-> 10, name |-> s_weather,
         info_class |-> Some(<<"WeatherFileInfo">>), pattern |-> Some(p_8h5)],
        [id |-> 12, name |-> s_calibration,
         info_class |-> Some(<<"cal_info_class">>), pattern |-> Some(p_8h5)]>>,
      {[acq_type |-> 1, file_type |-> 1], [acq_type |-> 2, file_type |-> 2],
       [acq_type |-> 3, file_type |-> 5], [acq_type |-> 5, file_type |-> 10], [acq_type |-> 7, file_type |-> 12]},
      <<inst_chime, inst_chimetiming>>>>

ManualCatalog == ManualTypes(p_corr)

\* the same with a capture group named as a field read from the file
OverlapCatalog == ManualTypes(p_corr_start)

\* 20220129T233553Z_chimetiming_corr/00000000_0000.h5
TestPath == <<JoinUnderscore(ts_strict, s_chimetiming, s_corr), f_corr>>

\* 20221101T000000Z_chime_weather/20221106.h5
WeatherPath == <<JoinUnderscore(ts_weather, s_chime, s_weather), f_weather>>

\* 20210321T121000Z_chime_digitalgain/00001101.h5
DigitalGainPath ==
    <<JoinUnderscore(ts_digitalgain, s_chime, s_digitalgain), f_digitalgain>>

\* 20230213T201433Z_chime_rawadc/000003.h5
RawadcPath == <<JoinUnderscore(ts_rawadc, s_chime, s_rawadc), f_rawadc>>

ImportPaths ==
    {TestPath, RawadcPath,
     <<JoinUnderscore(ts_strict, s_chimetiming, s_corr), f_corr2>>,
     <<JoinUnderscore(ts_strict, s_chime, s_hk), f_log>>,
     WeatherPath, DigitalGainPath,
     <<f_readme>>}

Init ==
    /\ \E c \in {EmptyCatalog, ManualCatalog, OverlapCatalog} :
          /\ AcqTypeTbl = c[1]
          /\ FileTypeTbl = c[2]
          /\ AcqFileTypesTbl = c[3]
          /\ ArchiveInstTbl = c[4]
    /\ ArchiveAcqTbl = <<>>
    /\ ArchiveFileTbl = <<>>
    /\ InfoTbl = <<>>
    /\ result = None
    /\ last = NoCall
    /\ NoNode
    /\ Idle

Next ==
    \/ UpdateTypes
    \/ UpdateInst
    \/ \E path \in ImportPaths : Import(path)

Spec == Init /\ [][Next]_vars

\* ------------------------------------------------------------------------
\* update_types on the catalogs it may find
\* ------------------------------------------------------------------------

\* the number of rows of the AcqType and of the FileType table at the start
MaxTypeRows == 1

\* ids and names that are registered for one table, for the other or for
\* neither
TypeIdPool == {1, 2, 12, 20}

TypeNamePool == {s_corr, s_hk, s_bogus}

\* the tables of up to MaxTypeRows rows with distinct ids and names
TypeTables(rows) ==
    {t \in UNION {[1..n -> rows] : n \in 0..MaxTypeRows} :
        \A i, j \in 1..Len(t) :
            i # j => (t[i].id # t[j].id /\ t[i].name # t[j].name)}

IdsOf(tbl) == {tbl[i].id : i \in 1..Len(tbl)}

InitTypes ==
    /\ AcqTypeTbl \in
          TypeTables([id : TypeIdPool, name : TypeNamePool,
                      info_class : {Some(<<"CorrAcqInfo">>)}])
    /\ FileTypeTbl \in
          TypeTables([id : TypeIdPool, name : TypeNamePool,
                      info_class : {Some(<<"CorrFileInfo">>)},
                      pattern : {Some(p_corr)}])
    /\ AcqFileTypesTbl \in
          SUBSET [acq_type : IdsOf(AcqTypeTbl), file_type : IdsOf(FileTypeTbl)]
    /\ ArchiveInstTbl = <<>>
    /\ ArchiveAcqTbl = <<>>
    /\ ArchiveFileTbl = <<>>
    /\ InfoTbl = <<>>
    /\ result = None
    /\ last = NoCall
    /\ NoNode
    /\ Idle

NextTypes == UpdateTypes

SpecTypes == InitTypes /\ [][NextTypes]_vars

\* ------------------------------------------------------------------------
\* reserving.py: ReservingNodeIO.delete, ReservingNodeIO.pull
\* ------------------------------------------------------------------------
\* CopyTbl     : the file copies on the node, rows [file, wants_file,
\*               last_update]; the copy of file f is row f
\* ReqTbl      : the copy requests towards the node, rows [file, cancelled]
\* ReservedTags: for each file the tags that reserve it on the node, as
\*               FileReservation.reserved_in_node(file, node) returns them
\* downstream  : the arguments of super().delete and super().pull in the
\*               method called last

\* the number of files on the node
MaxCopies == 2

\* the length of the list given to delete
MaxBatch == 2

Files == 1..MaxCopies

reserved_in_node(file) == ReservedTags[file]

KeepsAll(tags) == TRUE

\* "if not tags": no reservation, so this file is okay
NoTags(tags) == tags = <<>>

\* the for loop of delete from the i-th copy on: [tbl, new_list]
RECURSIVE delete_loop(_, _, _, _)
delete_loop(copies, i, tbl, new_list) ==
    IF i > Len(copies) THEN [tbl |-> tbl, new_list |-> new_list]
    ELSE IF NoTags(reserved_in_node(tbl[copies[i]].file))
    THEN delete_loop(copies, i + 1, tbl, Append(new_list, copies[i]))
    ELSE delete_loop(copies, i + 1,
                     [tbl EXCEPT ![copies[i]].wants_file = "Y",
                                 ![copies[i]].last_update = "now"],
                     new_list)

\* ReservingNodeIO.delete(copies)
Delete(copies) ==
    /\ \E out \in {delete_loop(copies, 1, CopyTbl, <<>>)} :
          /\ CopyTbl' = out.tbl
          /\ downstream' = [delete |-> Some(out.new_list), pull |-> None]
    /\ last' = [op |-> "delete", copies |-> copies]
    /\ UNCHANGED <<ReqTbl, ReservedTags, catalog, archive, result, stepping>>

NeverRefused(tags) == FALSE

\* "if not FileReservation.reserved_in_node(file=req.file, node=self.node)"
NotReserved(tags) == tags = <<>>

\* ReservingNodeIO.pull(req); was is req.cancelled at the call
Pull(req) ==
    /\ IF NotReserved(reserved_in_node(ReqTbl[req].file))
       THEN /\ ReqTbl' = [ReqTbl EXCEPT ![req].cancelled = 1]
            /\ downstream' = NoParentCall
       ELSE /\ downstream' = [delete |-> None, pull |-> Some(req)]
            /\ UNCHANGED ReqTbl
    /\ last' = [op |-> "pull", req |-> req, was |-> ReqTbl[req].cancelled]
    /\ UNCHANGED <<CopyTbl, ReservedTags, catalog, archive, result, stepping>>

\* the lists of copies that delete is given
Batches == UNION {[1..n -> Files] : n \in 0..MaxBatch}

InitReserve ==
    /\ CopyTbl \in [Files -> [file : Files, wants_file : {"N", "M"},
                              last_update : {"old"}]]
    /\ \A f \in Files : CopyTbl[f].file = f
    /\ ReqTbl \in [Files -> [file : Files, cancelled : {0, 1}]]
    /\ \A f \in Files : ReqTbl[f].file = f
    /\ ReservedTags \in [Files -> {<<>>, <<"tag">>}]
    /\ downstream = NoParentCall
    /\ AcqTypeTbl = <<>>
    /\ FileTypeTbl = <<>>
    /\ AcqFileTypesTbl = {}
    /\ ArchiveInstTbl = <<>>
    /\ ArchiveAcqTbl = <<>>
    /\ ArchiveFileTbl = <<>>
    /\ InfoTbl = <<>>
    /\ result = None
    /\ last = NoCall
    /\ Idle

NextReserve ==
    \/ \E copies \in Batches : Delete(copies)
    \/ \E req \in Files : Pull(req)

SpecReserve == InitReserve /\ [][NextReserve]_vars

\* ---------------------------------------------------------------------
\* info/base.py, info/corr.py, info/hfb.py: one content extraction, step
\* by step.  A file is what node.io.open and h5py find: whether it can be
\* opened on the node, whether it is an HDF5 container, the second column
\* of /index_map/time and the lengths of the other index maps (None for a
\* dataset that is missing).
\* ---------------------------------------------------------------------

\* the longest time index
MaxTimeLen == 4

CTimes == {0, 30, 60, 90}

TimeIndexes == UNION {[1..n -> CTimes] : n \in 0..MaxTimeLen}

IndexMaps ==
    {[freq |-> Some(2), prod |-> Some(3), subfreq |-> None, beam |-> None],
     [freq |-> Some(2), prod |-> None, subfreq |-> Some(1), beam |-> Some(4)],
     [freq |-> None, prod |-> Some(3), subfreq |-> Some(1), beam |-> None]}

FileContents ==
    [exists : BOOLEAN, hdf5 : BOOLEAN,
     time : {None} \cup {Some(t) : t \in TimeIndexes},
     index_map : IndexMaps]

\* the info classes that define _info_from_file and are modelled stepwise
ExtractClasses == {"CorrAcqInfo", "HFBAcqInfo", "CorrFileInfo", "HFBFileInfo"}

\* "with h5py.File(file, "r") as f:" in hfb.py; corr.py has
\* "f = h5py.File(file, "r") ... f.close()"
UsesWith(cls) == cls \in {"HFBAcqInfo", "HFBFileInfo"}

\* a float that is a multiple of one half
Float(twice) ==
    IF twice % 2 = 0 THEN [n |-> twice \div 2, d |-> 1]
    ELSE [n |-> twice, d |-> 2]

NaN == [n |-> 0, d |-> 0]

\* "for i in range(1, len(t)): dt = np.append(dt, t[i][1] - t[i - 1][1])"
Deltas(t) == [i \in 1..(IF Len(t) = 0 THEN 0 ELSE Len(t) - 1) |-> t[i + 1] - t[i]]

RECURSIVE Insert(_, _)
Insert(sorted, x) ==
    IF sorted = <<>> THEN <<x>>
    ELSE IF x <= Head(sorted) THEN <<x>> \o sorted
    ELSE <<Head(sorted)>> \o Insert(Tail(sorted), x)

RECURSIVE Sort(_)
Sort(a) == IF a = <<>> THEN <<>> ELSE Insert(Sort(Tail(a)), Head(a))

np_last(dt) == IF dt = <<>> THEN NaN ELSE Float(2 * dt[Len(dt)])

\* np.median(dt): the middle of the sorted array, the mean of the two
\* middle entries when their number is even, nan for an empty array
np_median(dt) ==
    IF dt = <<>> THEN NaN
    ELSE LET a == Sort(dt)
             n == Len(a)
         IN IF n % 2 = 1 THEN Float(2 * a[(n + 1) \div 2])
            ELSE Float(a[n \div 2] + a[n \div 2 + 1])

\* the datasets a class reads; a missing one raises KeyError
Datasets(cls) ==
    CASE cls = "CorrAcqInfo" -> {"freq", "prod"}
      [] cls = "HFBAcqInfo"  -> {"freq", "subfreq", "beam"}
      [] OTHER -> {}

\* the body of _info_from_file after h5py.File: None when a read raises
\* (KeyError for a missing dataset, IndexError for [0] of an empty one)
h5_read(cls, f) ==
    IF f.time = None \/ \E k \in Datasets(cls) : f.index_map[k] = None
    THEN None
    ELSE CASE cls = "CorrAcqInfo" ->
                Some([integration |-> np_median(Deltas(f.time[1])),
                      nfreq |-> f.index_map.freq[1],
                      nprod |-> f.index_map.prod[1]])
           [] cls = "HFBAcqInfo" ->
                Some([integration |-> np_median(Deltas(f.time[1])),
                      nfreq |-> f.index_map.freq[1],
                      nsubfreq |-> f.index_map.subfreq[1],
                      nbeam |-> f.index_map.beam[1]])
           [] OTHER ->
                IF f.time[1] = <<>> THEN None
                ELSE Some([start_time |-> f.time[1][1],
                           finish_time |-> f.time[1][Len(f.time[1])]])

InitExtract ==
    /\ ext \in [pc : {"start"}, cls : ExtractClasses, file : FileContents,
                opens : {0}, node_open : {FALSE}, container_open : {FALSE},
                raised : {FALSE}, info : {None}]
    /\ work = NoWork
    /\ AcqTypeTbl = <<>>
    /\ FileTypeTbl = <<>>
    /\ AcqFileTypesTbl = {}
    /\ ArchiveInstTbl = <<>>
    /\ ArchiveAcqTbl = <<>>
    /\ ArchiveFileTbl = <<>>
    /\ InfoTbl = <<>>
    /\ result = None
    /\ last = NoCall
    /\ NoNode

Rest == <<catalog, archive, result, last, reserving, work>>

\* "with node.io.open(path) as file:"
NodeOpen ==
    /\ ext.pc = "start"
    /\ ext' = IF ext.file.exists
              THEN [ext EXCEPT !.pc = "h5", !.opens = @ + 1, !.node_open = TRUE]
              ELSE [ext EXCEPT !.pc = "done", !.opens = @ + 1, !.raised = TRUE]
    /\ UNCHANGED Rest

\* "h5py.File(file, "r")"; when it raises the with statement closes the
\* node's file
H5Open ==
    /\ ext.pc = "h5"
    /\ ext' = IF ext.file.hdf5
              THEN [ext EXCEPT !.pc = "read", !.container_open = TRUE]
              ELSE [ext EXCEPT !.pc = "done", !.node_open = FALSE,
                               !.raised = TRUE]
    /\ UNCHANGED Rest

\* the reads; when one raises, the container is closed only by a with
\* statement, and the with statement of _set_info closes the node's file
H5Read ==
    /\ ext.pc = "read"
    /\ \E info \in {h5_read(ext.cls, ext.file)} :
         ext' = IF info = None
                THEN [ext EXCEPT !.pc = "done", !.raised = TRUE,
                                 !.container_open = ~UsesWith(ext.cls),
                                 !.node_open = FALSE]
                ELSE [ext EXCEPT !.pc = "close", !.info = info]
    /\ UNCHANGED Rest

\* "f.close()", or the end of the with block
H5Close ==
    /\ ext.pc = "close"
    /\ ext' = [ext EXCEPT !.pc = "exit", !.container_open = FALSE]
    /\ UNCHANGED Rest

\* the end of "with node.io.open(path) as file:", returning the info
WithExit ==
    /\ ext.pc = "exit"
    /\ ext' = [ext EXCEPT !.pc = "done", !.node_open = FALSE]
    /\ UNCHANGED Rest

NextExtract == NodeOpen \/ H5Open \/ H5Read \/ H5Close \/ WithExit

SpecExtract == InitExtract /\ [][NextExtract]_vars

\* ---------------------------------------------------------------------
\* Two imports in progress at once, for two files of one acquisition that
\* has no row yet.  Each import runs import_detect, fetches or creates the
\* ArchiveAcq row and the ArchiveFile row (each a lookup-then-insert in one
\* transaction of the record store) and then calls store_info with the
\* rows it created.
\* ---------------------------------------------------------------------

Workers == {1, 2}

\* 20220129T233553Z_chimetiming_corr/00000001_0000.h5
TestPath2 == <<JoinUnderscore(ts_strict, s_chimetiming, s_corr), f_corr2>>

RacePaths == <<TestPath, TestPath2>>

InitRace ==
    /\ \E c \in {ManualCatalog, OverlapCatalog} :
          /\ AcqTypeTbl = c[1]
          /\ FileTypeTbl = c[2]
          /\ AcqFileTypesTbl = c[3]
          /\ ArchiveInstTbl = c[4]
    /\ ArchiveAcqTbl = <<>>
    /\ ArchiveFileTbl = <<>>
    /\ InfoTbl = <<>>
    /\ result = None
    /\ last = NoCall
    /\ NoNode
    /\ ext = NoExtraction
    /\ work = [w \in Workers |->
                 [pc |-> "detect", path |-> RacePaths[w], det |-> None,
                  acq_id |-> 0, file_id |-> 0, acq |-> None, file |-> None,
                  raised |-> FALSE]]

RaceRest == <<catalog, result, last, reserving, ext>>

\* import_detect(path, node)
RaceDetect(w) ==
    /\ work[w].pc = "detect"
    /\ \E order \in OrdersFor(work[w].path) :
       \E det \in {import_detect(work[w].path, order)} :
          work' = [work EXCEPT ![w].det = Some(det),
                     ![w].pc = IF det.acq_name = None THEN "done" ELSE "acq"]
    /\ UNCHANGED <<RaceRest, archive>>

\* the ArchiveAcq row is fetched, or created when there is none
GetOrCreateAcq(w) ==
    /\ work[w].pc = "acq"
    /\ LET name == work[w].det[1].acq_name[1]
           new  == FindAcq(name) = {}
           id_  == IF new THEN Len(ArchiveAcqTbl) + 1
                   ELSE ArchiveAcqTbl[CHOOSE i \in FindAcq(name) : TRUE].id
       IN /\ ArchiveAcqTbl' =
                IF new
                THEN Append(ArchiveAcqTbl, [id |-> id_, name |-> name,
                                            type |-> None, inst |-> None])
                ELSE ArchiveAcqTbl
          /\ work' = [work EXCEPT ![w].pc = "file", ![w].acq_id = id_,
                        ![w].acq = IF new THEN Some(id_) ELSE None]
    /\ UNCHANGED <<RaceRest, ArchiveFileTbl, InfoTbl>>

\* the ArchiveFile row is fetched, or created when there is none
GetOrCreateFile(w) ==
    /\ work[w].pc = "file"
    /\ LET name == PathName(work[w].path)
           new  == FindFile(work[w].acq_id, name) = {}
           id_  == IF new THEN Len(ArchiveFileTbl) + 1
                   ELSE ArchiveFileTbl[CHOOSE i \in FindFile(work[w].acq_id, name) : TRUE].id
       IN /\ ArchiveFileTbl' =
                IF new
                THEN Append(ArchiveFileTbl, [id |-> id_, acq |-> work[w].acq_id,
                                             name |-> name, type |-> None])
                ELSE ArchiveFileTbl
          /\ work' = [work EXCEPT ![w].pc = "callback", ![w].file_id = id_,
                        ![w].file = IF new THEN Some(id_) ELSE None]
    /\ UNCHANGED <<RaceRest, ArchiveAcqTbl, InfoTbl>>

\* the callback: store_info(copy, file, acq, node, import_data=...)
RaceStoreInfo(w) ==
    /\ work[w].pc = "callback"
    /\ \E acq_out \in Outcomes, file_out \in Outcomes :
       \E out \in {store_info(ArchiveAcqTbl, ArchiveFileTbl, InfoTbl,
                              [file |-> work[w].file_id, acq |-> work[w].acq_id,
                               path |-> work[w].path],
                              work[w].file, work[w].acq,
                              work[w].det[1].callback[1], acq_out, file_out)} :
          /\ ArchiveAcqTbl' = out.acqs
          /\ ArchiveFileTbl' = out.files
          /\ InfoTbl' = out.infos
          /\ work' = [work EXCEPT ![w].pc = "done", ![w].raised = out.raised]
    /\ UNCHANGED RaceRest

NextRace ==
    \E w \in Workers :
        \/ RaceDetect(w)
        \/ GetOrCreateAcq(w)
        \/ GetOrCreateFile(w)
        \/ RaceStoreInfo(w)

SpecRace == InitRace /\ [][NextRace]_vars

\* ------------------------------------------------------------------------
\* Properties of import_detect and parse_acq
\* ------------------------------------------------------------------------

Detected == last.op = "import_detect"

Path == last.path

NameParts == split(PathParent(Path))

IsNegative(r) == ~r.raised /\ r.acq_name = None /\ r.callback = None

IsSuccess(r) == ~r.raised /\ r.acq_name # None /\ r.callback # None

NamesOf(tbl) == {tbl[i].name : i \in 1..Len(tbl)}

\* the pattern of ft is a regular expression that matches name
PatternMatches(ft, name) ==
    /\ ft.pattern # None
    /\ WellFormed(ft.pattern[1])
    /\ re_match(ft.pattern[1], name) # None

Allowed(at, ft) == [acq_type |-> at.id, file_type |-> ft.id] \in AcqFileTypesTbl

FourPartName == JoinUnderscore(ts_strict, s_chime, s_corr) \o <<"_">> \o s_corr

\* C1: a path whose parent directory does not split on "_" into exactly
\* three parts gets (None, None) from import_detect, without an exception.
Thm_C1 ==
    (Detected /\ Len(NameParts) # 3) => IsNegative(result[1])

\* a four-part name whose first three parts and whose file name would all
\* be accepted
Wit_C1 ==
    /\ Detected
    /\ Path = <<FourPartName, f_corr>>
    /\ \E at \in Rows(AcqTypeTbl), ft \in Rows(FileTypeTbl) :
          at.name = s_corr /\ Allowed(at, ft) /\ PatternMatches(ft, f_corr)
    /\ IsNegative(result[1])

AllPatternsWellFormed ==
    \A ft \in Rows(FileTypeTbl) :
        ft.pattern # None => WellFormed(ft.pattern[1])

AcqNameRejected ==
    \/ Len(NameParts) # 3
    \/ NameParts[3] \notin NamesOf(AcqTypeTbl)
    \/ NameParts[2] \notin NamesOf(ArchiveInstTbl)
    \/ strptime(NameParts[1]) = None

NoCandidateMatches ==
    /\ ~AcqNameRejected
    /\ \A at \in Rows(AcqTypeTbl), ft \in Rows(FileTypeTbl) :
          (at.name = NameParts[3] /\ Allowed(at, ft))
              => ~PatternMatches(ft, PathName(Path))

\* C2 as written: import_detect never raises, whatever the tables hold, and
\* an unknown instrument, an unknown acquisition type, an unparsable
\* timestamp or a file name no candidate matches give (None, None).
Orig_C2 ==
    Detected =>
        /\ ~result[1].raised
        /\ (AcqNameRejected \/ NoCandidateMatches) => IsNegative(result[1])

\* C2 amended: import_detect raises only when an allowed file type of the
\* resolved acquisition type has a pattern that is not a regular expression
\* (re.error); with well-formed patterns it never raises.  An unknown
\* instrument, an unknown acquisition type or an unparsable timestamp always
\* gives (None, None), and so does a file name that no candidate matches
\* unless a malformed pattern raised.
Thm_C2 ==
    Detected =>
        /\ AllPatternsWellFormed => ~result[1].raised
        /\ result[1].raised =>
              /\ ~AcqNameRejected
              /\ \E at \in Rows(AcqTypeTbl), ft \in Rows(FileTypeTbl) :
                    /\ at.name = NameParts[3] /\ Allowed(at, ft)
                    /\ ft.pattern # None /\ ~WellFormed(ft.pattern[1])
        /\ AcqNameRejected => IsNegative(result[1])
        /\ (NoCandidateMatches /\ ~result[1].raised) => IsNegative(result[1])

\* an unknown instrument in an otherwise acceptable path
Wit_C2 ==
    /\ Detected
    /\ Path = <<JoinUnderscore(ts_strict, s_nobody, s_corr), f_corr>>
    /\ s_corr \in NamesOf(AcqTypeTbl)
    /\ ArchiveInstTbl # <<>>
    /\ IsNegative(result[1])

\* C3: import_detect returns (None, None) or two non-null members; then the
\* key is str(path.parent) and the callback carries the import data of the
\* path: the type, instrument and time its name parts resolve to, the file
\* type selected and the groups its pattern captured in the file name.
Thm_C3 ==
    (Detected /\ ~result[1].raised) =>
        LET r == result[1] IN
        /\ r.acq_name = None <=> r.callback = None
        /\ r.acq_name # None =>
              LET d == r.callback[1] IN
              /\ r.acq_name[1] = PathParent(Path)
              /\ Len(NameParts) = 3
              /\ d.acqtype \in Rows(AcqTypeTbl) /\ d.acqtype.name = NameParts[3]
              /\ d.acqinst \in Rows(ArchiveInstTbl)
              /\ d.acqinst.name = NameParts[2]
              /\ Some(d.acqtime) = strptime(NameParts[1])
              /\ d.filetype \in Rows(FileTypeTbl)
              /\ PatternMatches(d.filetype, PathName(Path))
              /\ Some(d.name_data) = re_match(d.filetype.pattern[1], PathName(Path))

\* a successful detection that captured the two groups of the file name
Wit_C3 ==
    /\ Detected
    /\ IsSuccess(result[1])
    /\ Path = <<JoinUnderscore(ts_strict, s_chime, s_corr), f_corr>>
    /\ DOMAIN result[1].callback[1].name_data = {"chunk_number", "freq_number"}

RegIndex(ft) == CHOOSE i \in 1..Len(FileTypeTbl) : FileTypeTbl[i] = ft

\* C4: when several file types allowed for the resolved acquisition type
\* have patterns matching the file name, the one registered first is the
\* one selected.
Cex_C4 ==
    (Detected /\ IsSuccess(result[1])) =>
        LET d == result[1].callback[1] IN
        \A ft \in Rows(FileTypeTbl) :
            (Allowed(d.acqtype, ft) /\ PatternMatches(ft, PathName(Path)))
                => RegIndex(d.filetype) <= RegIndex(ft)

\* C6: a file type whose pattern is null is never the file type of a
\* successful detection.
Thm_C6 ==
    (Detected /\ IsSuccess(result[1])) =>
        result[1].callback[1].filetype.pattern # None

\* a success although the query yielded a pattern-less allowed type first
Wit_C6 ==
    /\ Detected
    /\ IsSuccess(result[1])
    /\ Len(last.order) > 1
    /\ last.order[1].pattern = None

\* C7: the selected file type is related to the resolved acquisition type
\* by an AcqFileTypes row; a matching type that is not allowed is never
\* selected.
Thm_C7 ==
    (Detected /\ IsSuccess(result[1])) =>
        LET d == result[1].callback[1] IN Allowed(d.acqtype, d.filetype)

\* a success while a type that is not allowed matches the file name too
Wit_C7 ==
    /\ Detected
    /\ IsSuccess(result[1])
    /\ \E ft \in Rows(FileTypeTbl) :
          /\ ~Allowed(result[1].callback[1].acqtype, ft)
          /\ PatternMatches(ft, PathName(Path))

DigitsAt(s, lo, hi) == \A i \in lo..hi : s[i] \in Digit

\* YYYYMMDDTHHMMSSZ: 8 digits, "T", 6 digits, "Z", naming a real instant
IsStrictTimestamp(s) ==
    /\ Len(s) = 16
    /\ DigitsAt(s, 1, 8) /\ s[9] = "T" /\ DigitsAt(s, 10, 15) /\ s[16] = "Z"
    /\ LET year   == IntOf(SubSeq(s, 1, 4))
           month  == IntOf(SubSeq(s, 5, 6))
           day    == IntOf(SubSeq(s, 7, 8))
       IN /\ year >= 1 /\ month \in 1..12 /\ day \in 1..DaysInMonth(year, month)
          /\ IntOf(SubSeq(s, 10, 11)) < 24
          /\ IntOf(SubSeq(s, 12, 13)) < 60
          /\ IntOf(SubSeq(s, 14, 15)) < 60

\* C8: parse_acq returns None for every name whose first part is not
\* exactly of the form YYYYMMDDTHHMMSSZ.
Cex_C8 ==
    (last.op = "parse_acq" /\ ~IsStrictTimestamp(split(last.name)[1]))
        => result[1].data = None

\* ------------------------------------------------------------------------
\* Properties of the import run and store_info
\* ------------------------------------------------------------------------

Imported == last.op = "import"

\* the catalog is what update_types and update_inst make of empty tables
SeededCatalog ==
    \E t \in {update_types(<<>>, <<>>, {})} :
        /\ AcqTypeTbl = t.at
        /\ FileTypeTbl = t.ft
        /\ AcqFileTypesTbl = t.aft
        /\ ArchiveInstTbl = update_inst(<<>>).tbl

\* C5: with the catalog seeded by update_types and update_inst, detection of
\* 20220129T233553Z_chimetiming_corr/00000000_0000.h5 succeeds with that
\* acquisition name as key, file type corr and capture groups chunk_number
\* and freq_number of value 0.
Cex_C5 ==
    (SeededCatalog /\ Imported /\ Path = TestPath) =>
        /\ IsSuccess(result[1])
        /\ result[1].acq_name = Some(JoinUnderscore(ts_strict, s_chimetiming, s_corr))
        /\ result[1].callback[1].filetype.name = s_corr
        /\ DOMAIN result[1].callback[1].name_data = {"chunk_number", "freq_number"}
        /\ IntOf(result[1].callback[1].name_data.chunk_number) = 0
        /\ IntOf(result[1].callback[1].name_data.freq_number) = 0

RecordsOf(infos, kind) == SelectSeq(infos, LAMBDA r : r.kind = kind)

AtMostOnePerItem(infos) ==
    \A i, j \in 1..Len(infos) :
        (infos[i].kind = infos[j].kind /\ infos[i].item = infos[j].item)
            => i = j

StepC9 ==
    /\ AtMostOnePerItem(InfoTbl')
    /\ (last'.op = "import" /\ last'.called) =>
          /\ last'.file = None =>
                RecordsOf(InfoTbl', "file") = RecordsOf(InfoTbl, "file")
          /\ last'.acq = None =>
                RecordsOf(InfoTbl', "acq") = RecordsOf(InfoTbl, "acq")

\* C9: over any sequence of imports at most one info record is saved per
\* acquisition and at most one per file; a callback with file = None saves
\* no file record and one with acq = None saves no acquisition record.
Thm_C9 == [][StepC9]_vars

\* the second file of an acquisition has been imported: both files and the
\* acquisition have their record
Wit_C9 ==
    /\ Imported /\ last.called
    /\ last.acq = None /\ last.file # None
    /\ Len(RecordsOf(InfoTbl, "acq")) = 1
    /\ Len(RecordsOf(InfoTbl, "file")) = 2
    /\ \A i, j \in 1..Len(ArchiveFileTbl) :
          ArchiveFileTbl[i].acq = ArchiveFileTbl[j].acq

\* C10: after store_info for a newly created acquisition the row's type and
\* inst are the AcqType and ArchiveInst that detection resolved; after
\* store_info for a newly created file the row's type is the FileType that
\* detection selected.
Cex_C10 ==
    (Imported /\ last.called) =>
        LET d == result[1].callback[1] IN
        /\ last.acq # None =>
              /\ RowById(ArchiveAcqTbl, last.acq[1]).type = Some(d.acqtype.id)
              /\ RowById(ArchiveAcqTbl, last.acq[1]).inst = Some(d.acqinst.id)
        /\ last.file # None =>
              RowById(ArchiveFileTbl, last.file[1]).type = Some(d.filetype.id)

\* ------------------------------------------------------------------------
\* Properties of set_info and the info classes
\* ------------------------------------------------------------------------

Called == Imported /\ last.called

\* the constructor of the info class raised in the set_info call for `at`
ExtractFailed(at) == Called /\ last.why = "extract" /\ last.at = at

RecordsFor(kind, id_) ==
    {i \in 1..Len(InfoTbl) : InfoTbl[i].kind = kind /\ InfoTbl[i].item = id_}

Complete(rec) == ContentFields(rec.cls) \subseteq DOMAIN rec.fields

\* C11: when the extraction of an info class fails no record is saved for
\* that acquisition or file, and every record that is saved holds all the
\* fields its class reads from the file.
Thm_C11 ==
    /\ \A i \in 1..Len(InfoTbl) : Complete(InfoTbl[i])
    /\ ExtractFailed("acq") =>
          /\ RecordsFor("acq", last.acq[1]) = {}
          /\ last.file # None => RecordsFor("file", last.file[1]) = {}
    /\ ExtractFailed("file") => RecordsFor("file", last.file[1]) = {}

\* the extraction for a new acquisition succeeded and its record is saved,
\* the extraction for its file failed
Wit_C11 ==
    /\ ExtractFailed("file")
    /\ last.acq # None
    /\ RecordsFor("acq", last.acq[1]) # {}
    /\ RecordsFor("file", last.file[1]) = {}

\* the rows that existed before the step are as they were
OldRowsKept ==
    /\ \A i \in 1..Len(ArchiveAcqTbl) : ArchiveAcqTbl'[i] = ArchiveAcqTbl[i]
    /\ \A i \in 1..Len(ArchiveFileTbl) : ArchiveFileTbl'[i] = ArchiveFileTbl[i]

\* the rows this import created are as alpenhornd created them
NewRowsUntouched ==
    /\ last'.acq # None =>
          /\ RowById(ArchiveAcqTbl', last'.acq[1]).type = None
          /\ RowById(ArchiveAcqTbl', last'.acq[1]).inst = None
    /\ last'.file # None =>
          RowById(ArchiveFileTbl', last'.file[1]).type = None

StepC12 ==
    (last'.op = "import" /\ last'.called /\ last'.why = "extract") =>
        /\ InfoTbl' = InfoTbl
        /\ OldRowsKept
        /\ NewRowsUntouched

\* C12: when the extraction run by store_info for a newly created
\* acquisition or file fails, the tables are as they were before the
\* store_info call: no row is inserted or modified.
Cex_C12 == [][StepC12]_vars

\* C13: an extraction failure is not propagated by store_info: the callback
\* returns normally and the import run goes on.
Cex_C13 == (Called /\ last.why = "extract") => ~last.raised

ImportData == result[1].callback[1]

\* the records saved for the rows that the last import created
NewFileRecords ==
    IF Called /\ last.file # None
    THEN {InfoTbl[i] : i \in RecordsFor("file", last.file[1])} ELSE {}

NewAcqRecords ==
    IF Called /\ last.acq # None
    THEN {InfoTbl[i] : i \in RecordsFor("acq", last.acq[1])} ELSE {}

\* the capture groups lie on top of the fields read from the file
FileFieldsMerged ==
    \A rec \in NewFileRecords :
        /\ DOMAIN rec.fields =
              ContentFields(rec.cls) \cup DOMAIN ImportData.name_data
        /\ \A k \in DOMAIN ImportData.name_data :
              rec.fields[k] = ImportData.name_data[k]
        /\ \A k \in ContentFields(rec.cls) \ DOMAIN ImportData.name_data :
              rec.fields[k] = FromFile

\* C14 as stated: the capture groups of a file and the acquisition timestamp
\* of an acquisition are merged on top of the fields read from the file, the
\* external value being kept for a name present in both.
Orig_C14 ==
    /\ FileFieldsMerged
    /\ \A rec \in NewAcqRecords :
          /\ "acqtime" \in DOMAIN rec.fields
          /\ rec.fields["acqtime"] = ImportData.acqtime

\* C14: in a file record the capture groups are merged on top of the fields
\* read from the file and win for a name present in both; an acquisition
\* record holds the fields read from the file only, the acquisition
\* timestamp is not part of it.
Thm_C14 ==
    /\ FileFieldsMerged
    /\ \A rec \in NewAcqRecords :
          /\ DOMAIN rec.fields = ContentFields(rec.cls)
          /\ \A k \in DOMAIN rec.fields : rec.fields[k] = FromFile

\* a file record saved for a name that the pattern captures and the file
\* holds as well, next to the record of its new acquisition
Wit_C14 ==
    /\ NewAcqRecords # {}
    /\ \E rec \in NewFileRecords :
          ContentFields(rec.cls) \cap DOMAIN ImportData.name_data # {}

\* the file-level set_info of the last import was entered
FileInfoEntered == Called /\ last.file # None /\ last.at # "acq"

CalClassFor(name) ==
    CASE name = s_digitalgain -> "DigitalGainFileInfo"
      [] name = s_gain        -> "CalibrationGainFileInfo"
      [] name = s_flaginput   -> "FlagInputFileInfo"

\* C15: for a file whose type names the class-providing function
\* cal_info_class, set_info resolves DigitalGainFileInfo,
\* CalibrationGainFileInfo or FlagInputFileInfo when the file's acquisition
\* is of type digitalgain, gain or flaginput, and raises a lookup error for
\* any other acquisition type.
Cex_C15 ==
    (FileInfoEntered
        /\ ImportData.filetype.info_class = Some(<<"cal_info_class">>)) =>
        IF ImportData.acqtype.name \in {s_digitalgain, s_gain, s_flaginput}
        THEN /\ last.why # "lookup"
             /\ \A rec \in NewFileRecords :
                   rec.cls = CalClassFor(ImportData.acqtype.name)
        ELSE last.why = "lookup"

\* the non-null info_class values that update_types stores
StoredRefs(rows) ==
    {rows[i].info_class : i \in 1..Len(rows)} \ {None}

\* C16: set_info given an info_class that update_types stored, for an
\* acquisition type or a file type, resolves it to a class of
\* alpenhorn_chime.info without a lookup error.
Cex_C16 ==
    /\ (Called /\ last.acq # None
          /\ ImportData.acqtype.info_class \in StoredRefs(acqtypes)) =>
            ~(last.at = "acq" /\ last.why = "lookup")
    /\ (FileInfoEntered
          /\ ImportData.filetype.info_class \in StoredRefs(filetypes)) =>
            ~(last.at = "file" /\ last.why = "lookup")

\* C17: the record of the weather file 20221106.h5 has date "20221106",
\* start_time 2022-11-06T00:00:00Z and finish_time 2022-11-06T23:59:59Z in
\* epoch seconds.
Cex_C17 ==
    (FileInfoEntered /\ Path = WeatherPath
        /\ ImportData.filetype.info_class = Some(<<"WeatherFileInfo">>)) =>
        \E rec \in NewFileRecords :
            /\ rec.cls = "WeatherFileInfo"
            /\ rec.fields["date"] = SubSeq(f_weather, 1, 8)
            /\ rec.fields["start_time"] = 1667692800
            /\ rec.fields["finish_time"] = 1667779199

\* ------------------------------------------------------------------------
\* Properties of ReservingNodeIO
\* ------------------------------------------------------------------------

IsReserved(copy) == ReservedTags[CopyTbl[copy].file] # <<>>

NumReserved(copies) ==
    Cardinality({i \in 1..Len(copies) : IsReserved(copies[i])})

\* C18: delete, given N copies of which M are reserved on the node, hands
\* exactly the N - M unreserved copies to the parent delete, no reserved
\* one, and every copy it dropped has wants_file = 'Y' and is saved.
Thm_C18 ==
    last.op = "delete" =>
        /\ downstream.delete # None
        /\ downstream.delete[1] =
              SelectSeq(last.copies, LAMBDA c : ~IsReserved(c))
        /\ Len(downstream.delete[1]) =
              Len(last.copies) - NumReserved(last.copies)
        /\ \A i \in 1..Len(downstream.delete[1]) :
              ~IsReserved(downstream.delete[1][i])
        /\ \A i \in 1..Len(last.copies) :
              IsReserved(last.copies[i]) =>
                  /\ CopyTbl[last.copies[i]].wants_file = "Y"
                  /\ CopyTbl[last.copies[i]].last_update = "now"

\* a list of a reserved and an unreserved copy has been given to delete
Wit_C18 ==
    /\ last.op = "delete"
    /\ Len(last.copies) = 2
    /\ NumReserved(last.copies) = 1
    /\ Len(downstream.delete[1]) = 1

\* C19: pull of a request whose file has no reservation on the node marks
\* the request cancelled, saves it and does not call the parent pull; pull
\* of a request whose file is reserved calls the parent pull and leaves the
\* cancelled flag as it was.
Thm_C19 ==
    last.op = "pull" =>
        IF ReservedTags[ReqTbl[last.req].file] = <<>>
        THEN /\ ReqTbl[last.req].cancelled = 1
             /\ downstream.pull = None
        ELSE /\ downstream.pull = Some(last.req)
             /\ ReqTbl[last.req].cancelled = last.was

\* a request that was not cancelled has been refused
Wit_C19 ==
    /\ last.op = "pull"
    /\ last.was = 0
    /\ ReqTbl[last.req].cancelled = 1
    /\ downstream.pull = None

\* ------------------------------------------------------------------------
\* Properties of update_types
\* ------------------------------------------------------------------------

Updated == last.op = "update_types"

OneRowPerName(tbl, rows) ==
    \A k \in 1..Len(rows) :
        Cardinality({i \in 1..Len(tbl) : tbl[i].name = rows[k].name}) = 1

OneRowPerRegisteredName ==
    /\ OneRowPerName(AcqTypeTbl, acqtypes)
    /\ OneRowPerName(FileTypeTbl, filetypes)
    /\ \A k \in 1..Len(TypeMapping) :
          \E r \in AcqFileTypesTbl :
              /\ r.acq_type = GetByName(AcqTypeTbl, TypeMapping[k][1])[1].id
              /\ r.file_type = GetByName(FileTypeTbl, TypeMapping[k][2])[1].id

\* the step is update_types run right after update_types
SecondRun == Updated /\ last'.op = "update_types" /\ last'.again

SameAsOnce == ~result'[1].raised /\ catalog' = catalog

UnknownRows(tbl, rows) ==
    {tbl[i] : i \in {j \in 1..Len(tbl) :
                        \A k \in 1..Len(rows) : rows[k].name # tbl[j].name}}

UnknownRowsKept ==
    /\ UnknownRows(AcqTypeTbl, acqtypes) \subseteq Rows(AcqTypeTbl')
    /\ UnknownRows(FileTypeTbl, filetypes) \subseteq Rows(FileTypeTbl')

NameOfId(tbl, id_) ==
    {tbl[i].name : i \in {j \in 1..Len(tbl) : tbl[j].id = id_}}

\* the pair joins the names of a pair of the seed mapping
InSeedMapping(r) ==
    \E k \in 1..Len(TypeMapping) :
        /\ TypeMapping[k][1] \in NameOfId(AcqTypeTbl, r.acq_type)
        /\ TypeMapping[k][2] \in NameOfId(FileTypeTbl, r.file_type)

\* the ids that the acquisition types of the seed mapping have after the call
MappedAcqIds ==
    {AcqTypeTbl'[i].id : i \in {j \in 1..Len(AcqTypeTbl') :
        \E k \in 1..Len(TypeMapping) : TypeMapping[k][1] = AcqTypeTbl'[j].name}}

UpdateStep == last'.op = "update_types" /\ ~result'[1].raised

\* C21 as stated: update_types deletes no row it does not know about: every
\* AcqType row, FileType row and AcqFileTypes pair that is present before
\* the call and absent from the seed lists is present after it.
Orig_C21 ==
    [][UpdateStep =>
          /\ UnknownRowsKept
          /\ \A r \in AcqFileTypesTbl :
                ~InSeedMapping(r) => r \in AcqFileTypesTbl']_vars

\* C21: update_types deletes no AcqType row and no FileType row whose name
\* is absent from the seed lists, and no AcqFileTypes pair of an
\* acquisition type that is not one of the seed mapping.
Thm_C21 ==
    [][UpdateStep =>
          /\ UnknownRowsKept
          /\ \A r \in AcqFileTypesTbl :
                r.acq_type \notin MappedAcqIds => r \in AcqFileTypesTbl']_vars

\* update_types has succeeded on a catalog that held an unknown
\* acquisition type, an unknown file type and the pair of the two
Wit_C21 ==
    /\ Updated /\ ~result[1].raised
    /\ \E a \in UnknownRows(AcqTypeTbl, acqtypes),
          f \in UnknownRows(FileTypeTbl, filetypes) :
          [acq_type |-> a.id, file_type |-> f.id] \in AcqFileTypesTbl

MappedAcqNames ==
    {s_corr, s_rawadc, s_weather, s_hfb, s_digitalgain, s_gain, s_flaginput}

ExpectedFileName(n) ==
    IF n \in {s_digitalgain, s_gain, s_flaginput} THEN s_calibration ELSE n

AllowedFileIds(acq_name) ==
    {r.file_type : r \in {q \in AcqFileTypesTbl :
        q.acq_type = GetByName(AcqTypeTbl, acq_name)[1].id}}

\* C22: after update_types each acquisition type of the seed mapping has
\* exactly one allowed file type: the file type of the same name for corr,
\* rawadc, weather and hfb, the calibration file type for digitalgain, gain
\* and flaginput.
Thm_C22 ==
    (Updated /\ ~result[1].raised) =>
        \A n \in MappedAcqNames :
            /\ GetByName(AcqTypeTbl, n) # None
            /\ GetByName(FileTypeTbl, ExpectedFileName(n)) # None
            /\ AllowedFileIds(n) =
                  {GetByName(FileTypeTbl, ExpectedFileName(n))[1].id}

\* update_types has succeeded on a catalog in which the corr acquisition
\* type allowed another file type than corr
Wit_C22 ==
    /\ Updated /\ ~last.again /\ ~result[1].raised
    /\ \E r \in last.removed :
          r.acq_type = GetByName(AcqTypeTbl, s_corr)[1].id

\* the extractor each registered name is given (test_update_types)
ExtractorOf ==
    [acq |-> [n \in {s_corr, s_hfb, s_weather, s_rawadc, s_digitalgain,
                      s_gain, s_flaginput} |->
                CASE n = s_corr -> "CorrAcqInfo"
                  [] n = s_hfb -> "HFBAcqInfo"
                  [] n = s_weather -> "WeatherAcqDetect"
                  [] n = s_rawadc -> "RawadcAcqInfo"
                  [] n = s_digitalgain -> "DigitalGainAcqDetect"
                  [] n = s_gain -> "CalibrationGainAcqDetect"
                  [] n = s_flaginput -> "FlagInputAcqDetect"],
     file |-> [n \in {s_corr, s_hfb, s_weather, s_rawadc} |->
                CASE n = s_corr -> "CorrFileInfo"
                  [] n = s_hfb -> "HFBFileInfo"
                  [] n = s_weather -> "WeatherFileInfo"
                  [] n = s_rawadc -> "RawadcFileInfo"]]

RegisteredNames(rows) == {rows[k].name : k \in 1..Len(rows)}

\* the rows update_types registers that hold a reference
Referencing(tbl, rows) ==
    {r \in Rows(tbl) : r.name \in RegisteredNames(rows) /\ r.info_class # None}

IsDirect(ref) ==
    Len(ref) = 2 /\ ref[1] = "alpenhorn_chime.info." /\ ref[2] # "="

IsIndirect(ref) ==
    ref = <<"=", "alpenhorn_chime.info.", "cal_info_class">>

Cex_C24 ==
    (Called /\ Path = RawadcPath /\ last.acq # None) =>
        \E i \in RecordsFor("acq", last.acq[1]) :
            /\ InfoTbl[i].cls = "RawadcAcqInfo"
            /\ "start_time" \in DOMAIN InfoTbl[i].fields
            /\ InfoTbl[i].fields.start_time
                  = timegm(2023, 2, 13) + 20 * 3600 + 14 * 60 + 33
            /\ InfoTbl[i].fields.start_time = 1676319273

ExtractDone == ext.pc = "done"

\* C25: a content extraction calls node.io.open once, and when the
\* extractor has returned or raised, the node's file and the container
\* opened on it are both closed.
Cex_C25 ==
    ExtractDone =>
        /\ ext.opens = 1
        /\ ~ext.node_open
        /\ ~ext.container_open

\* the differences between consecutive entries of the time index
ConsecutiveDiffs == Deltas(ext.file.time[1])

\* the k-th smallest entry of a, by counting
KthSmallest(a, k) ==
    CHOOSE v \in {a[i] : i \in 1..Len(a)} :
        /\ Cardinality({i \in 1..Len(a) : a[i] < v}) < k
        /\ Cardinality({i \in 1..Len(a) : a[i] <= v}) >= k

\* twice the median of a non-empty a
TwiceMedian(a) ==
    IF Len(a) % 2 = 1 THEN 2 * KthSmallest(a, (Len(a) + 1) \div 2)
    ELSE KthSmallest(a, Len(a) \div 2) + KthSmallest(a, Len(a) \div 2 + 1)

CorrAcqExtracted ==
    ExtractDone /\ ext.cls = "CorrAcqInfo" /\ ~ext.raised

\* C28: the integration that CorrAcqInfo reads from a file is the median of
\* the differences between consecutive entries of the time index, nfreq
\* and nprod are the lengths of the frequency and product index maps; the
\* time index 0, 30, 60, 90 gives the integration 30.
Thm_C28 ==
    CorrAcqExtracted =>
        /\ ext.info[1].nfreq = ext.file.index_map.freq[1]
        /\ ext.info[1].nprod = ext.file.index_map.prod[1]
        /\ Len(ext.file.time[1]) >= 2 =>
              /\ ext.info[1].integration.d \in {1, 2}
              /\ 2 * ext.info[1].integration.n
                   = TwiceMedian(ConsecutiveDiffs) * ext.info[1].integration.d
        /\ ext.file.time[1] = <<0, 30, 60, 90>> =>
              ext.info[1].integration = [n |-> 30, d |-> 1]

\* CorrAcqInfo has read a file whose time index has four entries with
\* three different steps
Wit_C28 ==
    /\ CorrAcqExtracted
    /\ ext.file.time[1] = <<0, 90, 30, 60>>
    /\ ext.info[1].integration = [n |-> 30, d |-> 1]

RaceAcqName == JoinUnderscore(ts_strict, s_chimetiming, s_corr)

Racing == DOMAIN work = Workers

BothDone == Racing /\ \A w \in Workers : work[w].pc = "done"

AcqRecordsOf(name) ==
    {i \in 1..Len(InfoTbl) :
        /\ InfoTbl[i].kind = "acq"
        /\ \E j \in FindAcq(name) : ArchiveAcqTbl[j].id = InfoTbl[i].item}

AcqRowOf(id_) == RowById(ArchiveAcqTbl, id_)

FileRowOf(id_) == RowById(ArchiveFileTbl, id_)

\* store_info was given a new acquisition whose type has no info_class
NewAcqNoClass ==
    Called /\ last.acq # None /\ ImportData.acqtype.info_class = None

\* store_info was given a new file whose type has no info_class, and the
\* acquisition-level step did not raise
NewFileNoClass ==
    FileInfoEntered /\ ImportData.filetype.info_class = None

RECURSIVE Pow10(_)
Pow10(n) == IF n = 0 THEN 1 ELSE 10 * Pow10(n - 1)

RECURSIVE DecimalValue(_)
DecimalValue(t) ==
    IF t = <<>> THEN 0
    ELSE DigitVal[Head(t)] * Pow10(Len(t) - 1) + DecimalValue(Tail(t))

\* 8 digits, '_', 4 digits, '.h5'
IsCorrFileName(n) ==
    /\ Len(n) = 16
    /\ \A i \in (1..8) \cup (10..13) : n[i] \in Digit
    /\ n[9] = "_"
    /\ SubSeq(n, 14, 16) = <<".", "h", "5">>

CorrFileRecords == {i \in 1..Len(InfoTbl) : InfoTbl[i].cls = "CorrFileInfo"}

\* C29: the CorrFileInfo row of a file named 8 digits, '_', 4 digits, '.h5'
\* holds as chunk_number and as freq_number, when the pattern captured
\* them, the integers that the 8 digits and the 4 digits of the name spell.
Thm_C29 ==
    \A i \in CorrFileRecords :
        \E name \in {FileRowOf(InfoTbl[i].item).name} :
            IsCorrFileName(name) =>
              /\ "chunk_number" \in DOMAIN InfoTbl[i].fields =>
                    Persisted(InfoTbl[i]).chunk_number
                        = [int |-> DecimalValue(SubSeq(name, 1, 8))]
              /\ "freq_number" \in DOMAIN InfoTbl[i].fields =>
                    Persisted(InfoTbl[i]).freq_number
                        = [int |-> DecimalValue(SubSeq(name, 10, 13))]

\* the record of 00000001_0000.h5 is saved with both groups captured
Wit_C29 ==
    \E i \in CorrFileRecords :
        /\ FileRowOf(InfoTbl[i].item).name = f_corr2
        /\ {"chunk_number", "freq_number"} \subseteq DOMAIN InfoTbl[i].fields
        /\ InfoTbl[i].fields.chunk_number = SubSeq(f_corr2, 1, 8)
        /\ Persisted(InfoTbl[i]).chunk_number = [int |-> 1]

BothNew == Called /\ last.acq # None /\ last.file # None

\* the acquisition type names an info class with a table
NamesRecordClass(info_class) ==
    /\ info_class # None
    /\ ~(Len(info_class[1]) = 1 /\ info_class[1][1] \in AcqDetectClasses)

\* the acquisition-level set_info of the call saved no record although the
\* acquisition type names an info class: it raised
AcqLevelFailed ==
    /\ BothNew
    /\ NamesRecordClass(ImportData.acqtype.info_class)
    /\ RecordsFor("acq", last.acq[1]) = {}

FileLevelStarted ==
    /\ BothNew
    /\ \/ FileRowOf(last.file[1]).type # None
       \/ RecordsFor("file", last.file[1]) # {}
       \/ last.opens.file > 0

\* C30: in a store_info call for a new acquisition and a new file the
\* file-level step starts only after the acquisition-level step is
\* complete; when the acquisition-level extraction fails the call raises,
\* the type of the file row is not set and no file record is saved.
Thm_C30 ==
    /\ AcqLevelFailed =>
          /\ last.raised /\ last.at = "acq"
          /\ FileRowOf(last.file[1]).type = None
          /\ RecordsFor("file", last.file[1]) = {}
          /\ last.opens.file = 0
    /\ FileLevelStarted =>
          /\ ~AcqLevelFailed
          /\ AcqRowOf(last.acq[1]).type = Some(ImportData.acqtype.id)
          /\ AcqRowOf(last.acq[1]).inst = Some(ImportData.acqinst.id)

\* the extraction of CorrAcqInfo failed in the first import of a file of a
\* new acquisition
Wit_C30 ==
    /\ AcqLevelFailed
    /\ ExtractFailed("acq")
    /\ ImportData.acqtype.info_class = Some(<<"CorrAcqInfo">>)
    /\ AcqRowOf(last.acq[1]).type # None

====
